---- MODULE Spec2Model ----
(***************************************************************************)
(* Vault fee service of beefy-api (src/src/api/vaults/getVaultFees.ts):    *)
(* the fee-batch registry, the refresh cycle over chains and multicall     *)
(* batches, and the classification of a strategy's accessor responses      *)
(* into a fee breakdown.                                                   *)
(***************************************************************************)
EXTENDS Integers, Sequences, FiniteSets, TLC

(***************************************************************************)
(* JavaScript numbers.  A finite number is an exact fraction n/d in lowest *)
(* terms (the model abstracts the rounding of doubles); NaN, Infinity and  *)
(* undefined are values of their own.  All quantities of the service are   *)
(* non-negative, so Infinity is +Infinity.                                 *)
(***************************************************************************)
RECURSIVE GCD(_, _)
GCD(a, b) == IF b = 0 THEN a ELSE GCD(b, a % b)

Abs(n) == IF n < 0 THEN -n ELSE n

Undefined == [t |-> "undefined", n |-> 0, d |-> 1]

NaN == [t |-> "NaN", n |-> 0, d |-> 1]

Infinity == [t |-> "Infinity", n |-> 0, d |-> 1]

Num(n, d) ==
  LET g == GCD(Abs(n), d)
  IN  [t |-> "number", n |-> n \div g, d |-> d \div g]

Whole(n) == Num(n, 1)

\* ToNumber of an operand of + * / - : undefined becomes NaN.
ToNumber(x) == IF x.t = "undefined" THEN NaN ELSE x

JsAdd(x, y) ==
  LET a == ToNumber(x)
      b == ToNumber(y)
  IN  IF a.t = "NaN" \/ b.t = "NaN" THEN NaN
      ELSE IF a.t = "Infinity" \/ b.t = "Infinity" THEN Infinity
      ELSE Num(a.n * b.d + b.n * a.d, a.d * b.d)

JsSub(x, y) ==
  LET a == ToNumber(x)
      b == ToNumber(y)
  IN  IF a.t = "NaN" \/ b.t = "NaN" THEN NaN
      ELSE IF b.t = "Infinity" THEN NaN
      ELSE IF a.t = "Infinity" THEN Infinity
      ELSE Num(a.n * b.d - b.n * a.d, a.d * b.d)

JsMul(x, y) ==
  LET a == ToNumber(x)
      b == ToNumber(y)
  IN  IF a.t = "NaN" \/ b.t = "NaN" THEN NaN
      ELSE IF a.t = "Infinity" THEN (IF b.t = "number" /\ b.n = 0 THEN NaN ELSE Infinity)
      ELSE IF b.t = "Infinity" THEN (IF a.n = 0 THEN NaN ELSE Infinity)
      ELSE LET g1 == GCD(Abs(a.n), b.d)
               g2 == GCD(Abs(b.n), a.d)
           IN  Num((a.n \div g1) * (b.n \div g2), (a.d \div g2) * (b.d \div g1))

JsDiv(x, y) ==
  LET a == ToNumber(x)
      b == ToNumber(y)
  IN  IF a.t = "NaN" \/ b.t = "NaN" THEN NaN
      ELSE IF a.t = "Infinity" THEN (IF b.t = "Infinity" THEN NaN ELSE Infinity)
      ELSE IF b.t = "Infinity" THEN Whole(0)
      ELSE IF b.n = 0 THEN (IF a.n = 0 THEN NaN ELSE Infinity)
      ELSE LET sgn == IF b.n < 0 THEN -1 ELSE 1
               g1 == GCD(Abs(a.n), Abs(b.n))
               g2 == GCD(a.d, b.d)
           IN  Num(sgn * (a.n \div g1) * (b.d \div g2), (a.d \div g2) * (Abs(b.n) \div g1))

\* x === y for a number x and a number-or-undefined y.
StrictEq(x, y) == x.t # "NaN" /\ y.t # "NaN" /\ x = y

\* x ?? y
Coalesce(x, y) == IF x.t = "undefined" THEN y ELSE x

\* isNaN(x)
IsNaN(x) == ToNumber(x).t = "NaN"

(***************************************************************************)
(* Results of a function that may return a value, return undefined or      *)
(* raise a TypeError.                                                      *)
(***************************************************************************)
Ok(v) == [k |-> "ok", v |-> <<v>>]

ReturnsUndefined == [k |-> "undefined", v |-> <<>>]

Throws == [k |-> "throw", v |-> <<>>]

Val(r) == r.v[1]

(***************************************************************************)
(* StrategyCallResponse: a function whose domain holds "id", "strategy"    *)
(* and the references that decoded.  Number accessors hold a JS number,    *)
(* paused a boolean.  breakdown and allFees.performance hold BigNumbers    *)
(* written in units of 1e15 (50 stands for 0.05e18); allFees.deposit and   *)
(* allFees.withdraw hold BigNumbers written as they are.                   *)
(***************************************************************************)
Has(contractCalls, ref) == ref \in DOMAIN contractCalls

Get(contractCalls, ref) ==
  IF Has(contractCalls, ref) THEN contractCalls[ref] ELSE Undefined

\* fees.x.div(1e9).toNumber() / 1e9 of a BigNumber written in units of 1e15
DivE9Twice(big) == Num(big, 1000)

\* An optional FeeBatchDetail argument: <<detail>> or <<>> (undefined).
NoFeeBatch == <<>>

\* depositFeeFromCalls returning 0, and not null, without the aggregate getter
depositFeeFromCallsZero(contractCalls) ==
  IF Has(contractCalls, "allFees")
    THEN <<Num(contractCalls["allFees"].deposit, 10000)>>
    ELSE <<Whole(0)>>

depositFeeFromCalls(contractCalls) ==
  IF Has(contractCalls, "allFees")
    THEN <<Num(contractCalls["allFees"].deposit, 10000)>>
    ELSE <<>>

\* withdrawalFeeFromCalls giving zero only when no withdraw accessor and no
\* denominator accessor responded
withdrawalFeeFromCallsBothMissing(contractCalls) ==
  IF Has(contractCalls, "allFees")
    THEN Num(contractCalls["allFees"].withdraw, 10000)
  ELSE IF \/ (/\ ~Has(contractCalls, "withdraw") /\ ~Has(contractCalls, "withdraw2")
              /\ ~Has(contractCalls, "withdrawMax") /\ ~Has(contractCalls, "withdrawMax2"))
          \/ (Has(contractCalls, "paused") /\ contractCalls["paused"] = TRUE)
    THEN Whole(0)
  ELSE JsDiv(Coalesce(Get(contractCalls, "withdraw"), Get(contractCalls, "withdraw2")),
             Coalesce(Get(contractCalls, "withdrawMax"), Get(contractCalls, "withdrawMax2")))

withdrawalFeeFromCalls(contractCalls) ==
  IF Has(contractCalls, "allFees")
    THEN Num(contractCalls["allFees"].withdraw, 10000)
  ELSE IF \/ (~Has(contractCalls, "withdraw") /\ ~Has(contractCalls, "withdraw2"))
          \/ (~Has(contractCalls, "withdrawMax") /\ ~Has(contractCalls, "withdrawMax2"))
          \/ (Has(contractCalls, "paused") /\ contractCalls["paused"] = TRUE)
    THEN Whole(0)
  ELSE JsDiv(Coalesce(Get(contractCalls, "withdraw"), Get(contractCalls, "withdraw2")),
             Coalesce(Get(contractCalls, "withdrawMax"), Get(contractCalls, "withdrawMax2")))

PerformanceFee(total, call, strategist, treasury, stakers) ==
  [total |-> total, call |-> call, strategist |-> strategist, treasury |-> treasury,
   stakers |-> stakers]

GetFeesBreakdown(total, beefy, call, strategist, feeSum, feeBatch) ==
  IF feeBatch = NoFeeBatch THEN Throws
  ELSE Ok(PerformanceFee(total,
                         JsDiv(JsMul(total, call), feeSum),
                         JsDiv(JsMul(total, strategist), feeSum),
                         JsMul(feeBatch[1].treasurySplit, JsDiv(JsMul(total, beefy), feeSum)),
                         JsMul(feeBatch[1].stakerSplit, JsDiv(JsMul(total, beefy), feeSum))))

performanceFromGetFees(fees, feeBatch) ==
  GetFeesBreakdown(DivE9Twice(fees.total), DivE9Twice(fees.beefy), DivE9Twice(fees.call),
                   DivE9Twice(fees.strategist),
                   JsAdd(JsAdd(DivE9Twice(fees.beefy), DivE9Twice(fees.call)),
                         DivE9Twice(fees.strategist)),
                   feeBatch)

\* The accessor variants of legacyFeeMappings and performanceForMaxi
CallFeeOf(contractCalls) ==
  Coalesce(Get(contractCalls, "call"), Coalesce(Get(contractCalls, "call2"),
    Coalesce(Get(contractCalls, "call3"), Get(contractCalls, "call4"))))

StrategistFeeOf(contractCalls) ==
  Coalesce(Get(contractCalls, "strategist"), Get(contractCalls, "strategist2"))

MaxFeeOf(contractCalls) ==
  Coalesce(Get(contractCalls, "maxFee"),
    Coalesce(Get(contractCalls, "maxFee2"), Get(contractCalls, "maxFee3")))

RewardsOf(contractCalls) ==
  Coalesce(Get(contractCalls, "rewards"), Get(contractCalls, "rewards2"))

\* legacyFeeMappings with the call + treasury + rewards test moved to the front
LegacyBranchTreasuryFirst(callFee, strategistFee, beefyFee, fee, treasury, rewards, maxFee) ==
  IF StrictEq(JsAdd(JsAdd(callFee, treasury), rewards), maxFee) THEN 6
  ELSE IF StrictEq(JsAdd(JsAdd(callFee, strategistFee), beefyFee), maxFee) THEN 1
  ELSE IF StrictEq(JsAdd(JsAdd(JsAdd(callFee, strategistFee), rewards), treasury), maxFee) THEN 2
  ELSE IF StrictEq(JsAdd(fee, callFee), maxFee) THEN 3
  ELSE IF ~IsNaN(JsAdd(JsAdd(strategistFee, callFee), beefyFee)) THEN 4
  ELSE IF ~IsNaN(JsAdd(JsAdd(strategistFee, callFee), treasury)) THEN 5
  ELSE IF StrictEq(JsAdd(callFee, beefyFee), maxFee) THEN 7
  ELSE IF StrictEq(JsAdd(callFee, fee), maxFee) THEN 8
  ELSE 0

\* legacyFeeMappings without the two isNaN tests: only the tests of a sum against maxFee
LegacyBranchSumsOnly(callFee, strategistFee, beefyFee, fee, treasury, rewards, maxFee) ==
  IF StrictEq(JsAdd(JsAdd(callFee, strategistFee), beefyFee), maxFee) THEN 1
  ELSE IF StrictEq(JsAdd(JsAdd(JsAdd(callFee, strategistFee), rewards), treasury), maxFee) THEN 2
  ELSE IF StrictEq(JsAdd(fee, callFee), maxFee) THEN 3
  ELSE IF StrictEq(JsAdd(JsAdd(callFee, treasury), rewards), maxFee) THEN 6
  ELSE IF StrictEq(JsAdd(callFee, beefyFee), maxFee) THEN 7
  ELSE IF StrictEq(JsAdd(callFee, fee), maxFee) THEN 8
  ELSE 0

\* The number of the branch of the if/else chain of legacyFeeMappings that is taken
\* (0: the final else).
LegacyBranch(callFee, strategistFee, beefyFee, fee, treasury, rewards, maxFee) ==
  IF StrictEq(JsAdd(JsAdd(callFee, strategistFee), beefyFee), maxFee) THEN 1
  ELSE IF StrictEq(JsAdd(JsAdd(JsAdd(callFee, strategistFee), rewards), treasury), maxFee) THEN 2
  ELSE IF StrictEq(JsAdd(fee, callFee), maxFee) THEN 3
  ELSE IF ~IsNaN(JsAdd(JsAdd(strategistFee, callFee), beefyFee)) THEN 4
  ELSE IF ~IsNaN(JsAdd(JsAdd(strategistFee, callFee), treasury)) THEN 5
  ELSE IF StrictEq(JsAdd(JsAdd(callFee, treasury), rewards), maxFee) THEN 6
  ELSE IF StrictEq(JsAdd(callFee, beefyFee), maxFee) THEN 7
  ELSE IF StrictEq(JsAdd(callFee, fee), maxFee) THEN 8
  ELSE 0

LegacyShape(contractCalls) ==
  LegacyBranch(CallFeeOf(contractCalls), StrategistFeeOf(contractCalls),
               Get(contractCalls, "beefy"), Get(contractCalls, "fee"),
               Get(contractCalls, "treasury"), RewardsOf(contractCalls),
               MaxFeeOf(contractCalls))

\* total by the branch alone, without the test of the vault id
LegacyTotalByShape(shape, id) ==
  IF shape = 3 THEN Num(5, 100) ELSE Num(45, 1000)

\* total of the branch
LegacyTotal(shape, id) ==
  IF shape = 3 THEN Num(5, 100)
  ELSE IF shape = 7 /\ id = "cake-cakev2-eol" THEN Num(1, 100)
  ELSE Num(45, 1000)

\* (total * part) / maxFee
Share(total, part, maxFee) == JsDiv(JsMul(total, part), maxFee)

\* The whole of beefy's share, the split left out
SplitShareUnsplit(total, split, beefyFee, maxFee) == JsDiv(JsMul(total, beefyFee), maxFee)

\* (total * split * beefyFee) / maxFee
SplitShare(total, split, beefyFee, maxFee) == JsDiv(JsMul(JsMul(total, split), beefyFee), maxFee)

\* legacyFeeMappings with a breakdown of zeros in the final else
LegacyBreakdownZeroWhenUnmatched(shape, total, callFee, strategistFee, beefyFee, fee, treasury, rewards, maxFee, feeBatch) ==
  IF shape \in {1, 4, 7} /\ feeBatch = NoFeeBatch THEN Throws
  ELSE Ok(PerformanceFee(total, Whole(0), Whole(0), Whole(0), Whole(0)))

\* The object literal of the branch
LegacyBreakdown(shape, total, callFee, strategistFee, beefyFee, fee, treasury, rewards, maxFee, feeBatch) ==
  CASE shape \in {1, 4} ->
         IF feeBatch = NoFeeBatch THEN Throws
         ELSE Ok(PerformanceFee(total, Share(total, callFee, maxFee),
                                Share(total, strategistFee, maxFee),
                                SplitShare(total, feeBatch[1].treasurySplit, beefyFee, maxFee),
                                SplitShare(total, feeBatch[1].stakerSplit, beefyFee, maxFee)))
    [] shape = 2 ->
         Ok(PerformanceFee(total, Share(total, callFee, maxFee),
                           Share(total, strategistFee, maxFee),
                           Share(total, treasury, maxFee), Share(total, rewards, maxFee)))
    [] shape \in {3, 8} ->
         Ok(PerformanceFee(total, Share(total, callFee, maxFee), Whole(0), Whole(0),
                           Share(total, fee, maxFee)))
    [] shape = 5 ->
         Ok(PerformanceFee(total, Share(total, callFee, maxFee),
                           Share(total, strategistFee, maxFee),
                           Share(total, treasury, maxFee), Whole(0)))
    [] shape = 6 ->
         Ok(PerformanceFee(total, Share(total, callFee, maxFee), Whole(0),
                           Share(total, treasury, maxFee), Share(total, rewards, maxFee)))
    [] shape = 7 ->
         IF feeBatch = NoFeeBatch THEN Throws
         ELSE Ok(PerformanceFee(total, Share(total, callFee, maxFee), Whole(0),
                                SplitShare(total, feeBatch[1].treasurySplit, beefyFee, maxFee),
                                SplitShare(total, feeBatch[1].stakerSplit, beefyFee, maxFee)))
    [] OTHER -> ReturnsUndefined

LegacyFee(shape, contractCalls, feeBatch) ==
  LegacyBreakdown(shape, LegacyTotal(shape, contractCalls["id"]), CallFeeOf(contractCalls),
                  StrategistFeeOf(contractCalls), Get(contractCalls, "beefy"),
                  Get(contractCalls, "fee"), Get(contractCalls, "treasury"),
                  RewardsOf(contractCalls), MaxFeeOf(contractCalls), feeBatch)

legacyFeeMappings(contractCalls, feeBatch) ==
  LegacyFee(LegacyShape(contractCalls), contractCalls, feeBatch)

(***************************************************************************)
(* String helpers over the strings of the model.  toLowerCase is given by  *)
(* its table on the mixed-case addresses the source names; every other     *)
(* address of the model is already lower case.                             *)
(***************************************************************************)
ToLowerCase(address) ==
  CASE
       address = "0x436D5127F16fAC1F021733dda090b5E6DE30b3bB" ->
         "0x436d5127f16fac1f021733dda090b5e6de30b3bb"
    [] address = "0xa9E6E271b27b20F65394914f8784B3B860dBd259" ->
         "0xa9e6e271b27b20f65394914f8784b3b860dbd259"
    [] address = "0x24AAaB9DA14308bAf9d670e2a37369FE8Cb5Fe36" ->
         "0x24aaab9da14308baf9d670e2a37369fe8cb5fe36"
    [] address = "0x22b3d90BDdC3Ad5F2948bE3914255C64Ebc8c9b3" ->
         "0x22b3d90bddc3ad5f2948be3914255c64ebc8c9b3"
    [] address = "0xbCF1e02ac0c45729dC85F290C4A6AB35c4801cB1" ->
         "0xbcf1e02ac0c45729dc85f290c4a6ab35c4801cb1"
    [] address = "0xb25eB9105549627050AAB3A1c909fBD454014beA" ->
         "0xb25eb9105549627050aab3a1c909fbd454014bea"
    [] address = "0xca077eEC87e2621F5B09AFE47C42BAF88c6Af18c" ->
         "0xca077eec87e2621f5b09afe47c42baf88c6af18c"
    [] address = "0x87056F5E8Dce0fD71605E6E291C6a3B53cbc3818" ->
         "0x87056f5e8dce0fd71605e6e291c6a3b53cbc3818"
    [] OTHER -> address

\* contractCalls.id.includes('-maxi'), over the vault ids of the model
IncludesMaxi(id) == id \in {"bifi-maxi", "avax-bifi-maxi"}

MaxiCallOnly1000 ==
  {ToLowerCase("0x436D5127F16fAC1F021733dda090b5E6DE30b3bB"),
   ToLowerCase("0xa9E6E271b27b20F65394914f8784B3B860dBd259")}

MaxiLegacy45 ==
  {ToLowerCase(address) : address \in
     {"0x24AAaB9DA14308bAf9d670e2a37369FE8Cb5Fe36",
      "0x22b3d90BDdC3Ad5F2948bE3914255C64Ebc8c9b3",
      "0xbCF1e02ac0c45729dC85F290C4A6AB35c4801cB1",
      "0xb25eB9105549627050AAB3A1c909fBD454014beA"}}

MaxiAvax == ToLowerCase("0xca077eEC87e2621F5B09AFE47C42BAF88c6Af18c")

MaxiOldBifi == ToLowerCase("0x87056F5E8Dce0fD71605E6E291C6a3B53cbc3818")

MaxiBreakdown(strategyAddress, callFee, maxCallFee, maxFee, rewards) ==
  IF strategyAddress \in MaxiCallOnly1000
    THEN PerformanceFee(JsDiv(callFee, Whole(1000)), JsDiv(callFee, Whole(1000)),
                        Whole(0), Whole(0), Whole(0))
  ELSE IF strategyAddress \in MaxiLegacy45
    THEN PerformanceFee(JsDiv(JsMul(Num(45, 1000), callFee), maxFee),
                        JsDiv(JsMul(Num(45, 1000), callFee), maxFee),
                        Whole(0), Whole(0), Whole(0))
  ELSE IF MaxiAvax = strategyAddress
    THEN PerformanceFee(Num(5, 1000), Num(5, 1000), Whole(0), Whole(0), Whole(0))
  ELSE IF MaxiOldBifi = strategyAddress
    THEN PerformanceFee(JsDiv(JsAdd(callFee, rewards), maxFee), JsDiv(callFee, maxFee),
                        Whole(0), Whole(0), JsDiv(rewards, maxFee))
  ELSE PerformanceFee(JsDiv(callFee, maxCallFee), JsDiv(callFee, maxCallFee),
                      Whole(0), Whole(0), Whole(0))

\* performanceForMaxi comparing the strategy address as it is written, not lower-cased
performanceForMaxiCaseSensitive(contractCalls) ==
  MaxiBreakdown(contractCalls["strategy"], CallFeeOf(contractCalls),
                Coalesce(Get(contractCalls, "maxCallFee"), Whole(1000)),
                MaxFeeOf(contractCalls), RewardsOf(contractCalls))

performanceForMaxi(contractCalls) ==
  MaxiBreakdown(ToLowerCase(contractCalls["strategy"]), CallFeeOf(contractCalls),
                Coalesce(Get(contractCalls, "maxCallFee"), Whole(1000)),
                MaxFeeOf(contractCalls), RewardsOf(contractCalls))

\* performanceFeesFromCalls testing the vault id for '-maxi' before the two getters
GenerationMaxiFirst(contractCalls) ==
  IF IncludesMaxi(contractCalls["id"]) THEN "maxi"
  ELSE IF Has(contractCalls, "allFees") THEN "allFees"
  ELSE IF Has(contractCalls, "breakdown") THEN "breakdown"
  ELSE "legacy"

\* Which generation performanceFeesFromCalls takes.
Generation(contractCalls) ==
  IF Has(contractCalls, "allFees") THEN "allFees"
  ELSE IF Has(contractCalls, "breakdown") THEN "breakdown"
  ELSE IF IncludesMaxi(contractCalls["id"]) THEN "maxi"
  ELSE "legacy"

PerformanceOf(generation, contractCalls, feeBatch) ==
  CASE generation = "allFees" ->
         performanceFromGetFees(contractCalls["allFees"].performance, feeBatch)
    [] generation = "breakdown" -> performanceFromGetFees(contractCalls["breakdown"], feeBatch)
    [] generation = "maxi" -> Ok(performanceForMaxi(contractCalls))
    [] OTHER -> legacyFeeMappings(contractCalls, feeBatch)

performanceFeesFromCalls(contractCalls, feeBatch) ==
  PerformanceOf(Generation(contractCalls), contractCalls, feeBatch)

\* The breakdown without Date.now(): lastUpdated is 0
FeeBreakdownAtEpoch(withdrawFee, performanceFee, depositFee, dateNow) ==
  IF performanceFee.k = "throw" THEN Throws
  ELSE IF withdrawFee.t = "undefined" THEN ReturnsUndefined
  ELSE IF performanceFee.k = "undefined" THEN ReturnsUndefined
  ELSE Ok([performance |-> Val(performanceFee),
           withdraw |-> withdrawFee,
           deposit |-> depositFee,
           lastUpdated |-> 0])

\* The return of mapStrategyCallsToFeeBreakdown.  An absent deposit field is <<>>.
FeeBreakdown(withdrawFee, performanceFee, depositFee, dateNow) ==
  IF performanceFee.k = "throw" THEN Throws
  ELSE IF withdrawFee.t = "undefined" THEN ReturnsUndefined
  ELSE IF performanceFee.k = "undefined" THEN ReturnsUndefined
  ELSE Ok([performance |-> Val(performanceFee),
           withdraw |-> withdrawFee,
           deposit |-> depositFee,
           lastUpdated |-> dateNow])

\* The VaultFeeBreakdown, undefined, or the TypeError of a missing feeBatch.
\* dateNow is the value of Date.now() at the call.
mapStrategyCallsToFeeBreakdown(contractCalls, feeBatch, dateNow) ==
  FeeBreakdown(withdrawalFeeFromCalls(contractCalls),
               performanceFeesFromCalls(contractCalls, feeBatch),
               depositFeeFromCalls(contractCalls), dateNow)

(***************************************************************************)
(* Multicall results.  A call return holds its reference, whether it       *)
(* decoded, and its return values; a BigNumber value is                    *)
(* [type |-> "BigNumber", hex |-> n], a boolean [type |-> "bool", ...].    *)
(***************************************************************************)
References ==
  <<"strategist", "strategist2", "call", "call2", "call3", "call4", "maxCallFee", "beefy",
    "fee", "treasury", "rewards", "rewards2", "breakdown", "allFees", "maxFee", "maxFee2",
    "maxFee3", "withdraw", "withdraw2", "withdrawMax", "withdrawMax2", "paused">>

Big(n) == [type |-> "BigNumber", hex |-> n]

Bool(b) == [type |-> "bool", value |-> b]

\* One strategy's result: the calls in `decoded` (reference -> return values)
\* decoded, every other reference did not.
ContractResult(vaultId, contractAddress, decoded) ==
  [reference |-> vaultId,
   contractAddress |-> contractAddress,
   callsReturnContext |->
     [i \in 1..Len(References) |->
        IF References[i] \in DOMAIN decoded
          THEN [reference |-> References[i], decoded |-> TRUE,
                returnValues |-> decoded[References[i]]]
          ELSE [reference |-> References[i], decoded |-> FALSE, returnValues |-> <<>>]]]

MapCallReturn(callReturn) ==
  IF callReturn.reference = "allFees"
    THEN [performance |-> [total |-> callReturn.returnValues[1][1].hex,
                           beefy |-> callReturn.returnValues[1][2].hex,
                           call |-> callReturn.returnValues[1][3].hex,
                           strategist |-> callReturn.returnValues[1][4].hex],
          deposit |-> callReturn.returnValues[2].hex,
          withdraw |-> callReturn.returnValues[3].hex]
  ELSE IF callReturn.reference = "breakdown"
    THEN [total |-> callReturn.returnValues[1].hex,
          beefy |-> callReturn.returnValues[2].hex,
          call |-> callReturn.returnValues[3].hex,
          strategist |-> callReturn.returnValues[4].hex]
  ELSE IF callReturn.returnValues[1].type = "BigNumber"
    THEN Whole(callReturn.returnValues[1].hex)
  ELSE callReturn.returnValues[1].value

\* mapMulticallResults for one entry of results.results
MapContractResult(result) ==
  LET ctx == result.callsReturnContext
      decodedRefs == {ctx[i].reference : i \in {j \in DOMAIN ctx : ctx[j].decoded}}
      At(ref) == CHOOSE i \in DOMAIN ctx : ctx[i].reference = ref
  IN  [ref \in {"id", "strategy"} \cup decodedRefs |->
         IF ref = "id" THEN result.reference
         ELSE IF ref = "strategy" THEN result.contractAddress
         ELSE MapCallReturn(ctx[At(ref)])]

mapMulticallResults(results) == [i \in DOMAIN results |-> MapContractResult(results[i])]

(***************************************************************************)
(* Program constants and the collaborators' data.                          *)
(***************************************************************************)
INIT_DELAY == 15000

REFRESH_INTERVAL == 5 * 60 * 1000

CACHE_EXPIRY == 1000 * 60 * 60 * 12

\* Batch sizes, scaled down from the source's 100 (default) and 25 (polygon).
DefaultBatchSize == 2

PolygonBatchSize == 1

batchSizeForChain(chain) == IF chain = "polygon" THEN PolygonBatchSize ELSE DefaultBatchSize

\* Object.keys(addressBookByChainId), in key order (56, 137, 324, 42262)
ChainOrder == <<"bsc", "polygon", "zksync", "emerald">>

Chains == {ChainOrder[i] : i \in DOMAIN ChainOrder}

\* The chains with an entry in MULTICALL_V3
HasMulticall(chain) == chain # "emerald"

FeeRecipient(chain) ==
  CASE chain = "bsc" -> "feeRecipient:bsc"
    [] chain = "polygon" -> "feeRecipient:polygon"
    [] chain = "zksync" -> "feeRecipient:zksync"
    [] OTHER -> "feeRecipient:emerald"

\* getMultichainVaults()
MultichainVaults ==
  <<[id |-> "cake-bnb", chain |-> "bsc", strategy |-> "0x1111111111111111111111111111111111111111"],
    [id |-> "bifi-maxi", chain |-> "bsc", strategy |-> "0x87056F5E8Dce0fD71605E6E291C6a3B53cbc3818"],
    [id |-> "bsc-agg", chain |-> "bsc", strategy |-> "0x2222222222222222222222222222222222222222"],
    [id |-> "quick-eth", chain |-> "polygon", strategy |-> "0x3333333333333333333333333333333333333333"],
    [id |-> "sync-usdc", chain |-> "zksync", strategy |-> "0x4444444444444444444444444444444444444444"],
    [id |-> "yuzu-rose", chain |-> "emerald", strategy |-> "0x5555555555555555555555555555555555555555"]>>

VaultIds == {MultichainVaults[i].id : i \in DOMAIN MultichainVaults}

VaultOf(id) == MultichainVaults[CHOOSE i \in DOMAIN MultichainVaults : MultichainVaults[i].id = id]

\* What the strategy of a vault may answer to the accessor calls of one cycle.
StrategyAnswers(id) ==
  CASE id = "cake-bnb" ->
         {\* call + strategist + beefy = maxFee
          [call |-> <<Big(500)>>, strategist |-> <<Big(500)>>, beefy |-> <<Big(9000)>>,
           maxFee |-> <<Big(10000)>>, withdraw |-> <<Big(10)>>, withdrawMax |-> <<Big(10000)>>,
           paused |-> <<Bool(FALSE)>>],
          \* no shape matches
          [call2 |-> <<Big(500)>>, maxFee |-> <<Big(10000)>>, paused |-> <<Bool(TRUE)>>]}
    [] id = "bifi-maxi" ->
         {[call |-> <<Big(100)>>, rewards |-> <<Big(300)>>, maxFee |-> <<Big(1000)>>]}
    [] id = "bsc-agg" ->
         {[allFees |-> <<<<Big(95), Big(90), Big(5), Big(5)>>, Big(0), Big(10)>>,
           call |-> <<Big(500)>>, strategist |-> <<Big(500)>>, beefy |-> <<Big(9000)>>,
           maxFee |-> <<Big(10000)>>]}
    [] id = "quick-eth" ->
         {[breakdown |-> <<Big(50), Big(30), Big(10), Big(10)>>,
           withdraw2 |-> <<Big(1)>>, withdrawMax2 |-> <<Big(1000)>>]}
    [] id = "sync-usdc" ->
         {[call |-> <<Big(500)>>, treasury |-> <<Big(4000)>>, rewards2 |-> <<Big(5500)>>,
           maxFee2 |-> <<Big(10000)>>]}
    [] OTHER -> {<<>>}

\* The outcomes of feeBatchContract.methods.treasuryFee().call(): the uint256
\* as a decimal string (parts per 1000), or an error with its message.
TreasuryFeeValues == {0, 500, 1000}

ErrorMessages ==
  {"execution reverted", "is not using the correct ABI", "cannot estimate gas", "timeout"}

IncludesRevert(message) == message = "execution reverted"

IncludesCorrectABI(message) == message = "is not using the correct ABI"

IncludesCannotEstimateGas(message) == message = "cannot estimate gas"

Value(n) == [k |-> "value", n |-> n, message |-> ""]

Error(message) == [k |-> "error", n |-> 0, message |-> message]

\* Every outcome, on every chain
AnyOutcome(chainId) ==
  {Value(n) : n \in TreasuryFeeValues} \cup {Error(m) : m \in ErrorMessages}

\* The outcomes of one deployment: bsc and emerald have the older fee batch without
\* treasuryFee(), polygon the newer one, zksync none; the RPC of bsc may time out.
DeployedOutcome(chainId) ==
  CASE chainId = "bsc" -> {Error("execution reverted"), Error("timeout")}
    [] chainId = "polygon" -> {Value(500)}
    [] chainId = "zksync" -> {Error("cannot estimate gas")}
    [] OTHER -> {Error("is not using the correct ABI")}

(***************************************************************************)
(* Bounds of the model.                                                    *)
(***************************************************************************)
\* Refresh cycles that are started.
MaxCycles == 2

\* The clock (ms) when the process starts.
StartTime == 50000000

\* How late a timer may fire, beyond its interval.
TimerSlack == {0, CACHE_EXPIRY - REFRESH_INTERVAL + 1}

(***************************************************************************)
(* State.                                                                  *)
(***************************************************************************)
VARIABLES
  pc,           \* where the service is: "start", "updateFeeBatches", "setFeeBatchKey",
                \* "initDelay", "cycle", "saving", "sleeping"; or which of its
                \* promises rejected: "getKeyRejected", "updateFeeBatchesRejected",
                \* "updateVaultFeesRejected"; "off" where only the classification runs
  now,          \* Date.now()
  store,        \* the key-value store: VAULT_FEES and FEE_BATCHES, each <<>> or <<value>>
  feeBatches,   \* chain -> FeeBatchDetail, on the chains that have one
  vaultFees,    \* vault id -> VaultFeeBreakdown, on the vaults that have one
  chainIndex,   \* updateFeeBatches: the index in ChainOrder of the call awaited
  tasks,        \* chain -> the getChainFees call of the current cycle
  cycle,        \* cycles started so far
  cycleStart,   \* vaultFees as it was when the current cycle started
  written,      \* the vault ids assigned in vaultFees by the current cycle
  saves,        \* saveToRedis calls of the current cycle
  lastRead,     \* the last getTotalPerformanceFeeForVault call and its result
  treasuryCall, \* the last treasuryFee() call that settled: its chain and outcome
  cCalls,       \* classification alone: the StrategyCallResponse
  cFeeBatch,    \*   the feeBatch argument
  cOut          \*   the results of the classification functions, <<>> before the call

vars ==
  <<pc, now, store, feeBatches, vaultFees, chainIndex, tasks, cycle, cycleStart, written,
    saves, lastRead, treasuryCall, cCalls, cFeeBatch, cOut>>

serviceVars ==
  <<pc, now, store, feeBatches, vaultFees, chainIndex, tasks, cycle, cycleStart, written,
    saves, lastRead, treasuryCall>>

classifyVars == <<cCalls, cFeeBatch, cOut>>

(***************************************************************************)
(* What the store may hold when the process starts: snapshots that an      *)
(* earlier run of the service persisted.                                   *)
(***************************************************************************)
FeeBatchDetail(chain, permille) ==
  [address |-> FeeRecipient(chain),
   treasurySplit |-> JsDiv(Whole(permille), Whole(1000)),
   stakerSplit |-> JsSub(Whole(1), JsDiv(Whole(permille), Whole(1000)))]

StoredBreakdown(lastUpdated) ==
  [performance |-> [total |-> Num(45, 1000), call |-> Num(5, 1000), strategist |-> Num(5, 1000),
                    treasury |-> Num(5, 1000), stakers |-> Num(30, 1000)],
   withdraw |-> Num(1, 1000),
   deposit |-> <<>>,
   lastUpdated |-> lastUpdated]

\* Stored entries whose age at a first cycle started without slack is twelve hours
\* and one millisecond (cake-bnb), exactly twelve hours (bifi-maxi), and less (quick-eth).
StoredVaultFees ==
  [id \in {"cake-bnb", "bifi-maxi", "quick-eth"} |->
     CASE id = "cake-bnb" -> StoredBreakdown(StartTime + INIT_DELAY - CACHE_EXPIRY - 1)
       [] id = "bifi-maxi" -> StoredBreakdown(StartTime + INIT_DELAY - CACHE_EXPIRY)
       [] OTHER -> StoredBreakdown(StartTime - REFRESH_INTERVAL)]

StoredFeeBatches == [chain \in {"polygon"} |-> FeeBatchDetail(chain, 140)]

\* Every store of the model
AnyStore ==
  {[VAULT_FEES |-> v, FEE_BATCHES |-> f] :
     v \in {<<>>, <<StoredVaultFees>>}, f \in {<<>>, <<StoredFeeBatches>>}}

\* The stores of a deployment that never persisted fee batches
InitialStores == {st \in AnyStore : st.FEE_BATCHES = <<>>}

\* {} as an object, and obj[key] = value
EmptyMap == [key \in {} |-> key]

Assign(obj, key, value) ==
  [k \in DOMAIN obj \cup {key} |-> IF k = key THEN value ELSE obj[k]]

IdleTask == [status |-> "idle", vaults |-> <<>>, results |-> <<>>, feeBatch |-> <<>>]

NoRead == [id |-> "", result |-> ReturnsUndefined]

NoCall == [chain |-> "", outcome |-> Error("")]

Init ==
  /\ pc = "start"
  /\ now = StartTime
  /\ store \in InitialStores
  /\ feeBatches = EmptyMap
  /\ vaultFees = EmptyMap
  /\ chainIndex = 0
  /\ tasks = [chain \in Chains |-> IdleTask]
  /\ cycle = 0
  /\ cycleStart = EmptyMap
  /\ written = {}
  /\ saves = 0
  /\ lastRead = NoRead
  /\ treasuryCall = NoCall
  /\ cCalls = <<>>
  /\ cFeeBatch = <<>>
  /\ cOut = <<>>

(***************************************************************************)
(* initVaultFeeService and updateFeeBatches.                               *)
(***************************************************************************)
\* The two getKey calls settle: the caches are hydrated and updateFeeBatches
\* issues its first call; or getKey rejects and initVaultFeeService with it.
InitVaultFeeService ==
  /\ pc = "start"
  /\ \E ok \in BOOLEAN :
       IF ok
         THEN /\ feeBatches' = IF store.FEE_BATCHES = <<>> THEN EmptyMap ELSE store.FEE_BATCHES[1]
              /\ vaultFees' = IF store.VAULT_FEES = <<>> THEN EmptyMap ELSE store.VAULT_FEES[1]
              /\ chainIndex' = 1
              /\ pc' = "updateFeeBatches"
         ELSE /\ pc' = "getKeyRejected"
              /\ UNCHANGED <<feeBatches, vaultFees, chainIndex>>
  /\ UNCHANGED <<now, store, tasks, cycle, cycleStart, written, saves, lastRead, treasuryCall>>
  /\ UNCHANGED classifyVars

\* The catch taking every error for a missing method: 140 whatever the message
TreasurySplitOfAnyError(chainId, outcome) ==
  IF outcome.k = "value" THEN [t |-> "string", n |-> outcome.n]
  ELSE [t |-> "number", n |-> 140]

\* The local treasurySplit after the try/catch: a decimal string, a number or undefined.
TreasurySplitOf(chainId, outcome) ==
  IF outcome.k = "value" THEN [t |-> "string", n |-> outcome.n]
  ELSE IF IncludesRevert(outcome.message) \/ IncludesCorrectABI(outcome.message)
    THEN [t |-> "number", n |-> 140]
  ELSE IF chainId = "zksync" /\ IncludesCannotEstimateGas(outcome.message)
    THEN [t |-> "number", n |-> 640]
  ELSE [t |-> "undefined", n |-> 0]

\* if (treasurySplit): a decimal string is not empty, a number is not 0
Truthy(treasurySplit) ==
  \/ treasurySplit.t = "string"
  \/ treasurySplit.t = "number" /\ treasurySplit.n # 0

\* The FeeBatchDetail with a stakerSplit of 1 - treasurySplit, not divided by 1000
NewFeeBatchUnscaled(chainId, treasurySplit) ==
  [address |-> FeeRecipient(chainId),
   treasurySplit |-> JsDiv(Whole(treasurySplit.n), Whole(1000)),
   stakerSplit |-> JsSub(Whole(1), Whole(treasurySplit.n))]

NewFeeBatch(chainId, treasurySplit) ==
  [address |-> FeeRecipient(chainId),
   treasurySplit |-> JsDiv(Whole(treasurySplit.n), Whole(1000)),
   stakerSplit |-> JsSub(Whole(1), JsDiv(Whole(treasurySplit.n), Whole(1000)))]

\* One iteration of the loop of updateFeeBatches: the treasuryFee() call of the
\* chain settles; the next chain's call, or setKey after the last, is issued.
UpdateFeeBatchesIn(outcomes) ==
  /\ pc = "updateFeeBatches"
  /\ \E outcome \in outcomes[ChainOrder[chainIndex]] :
       LET chainId == ChainOrder[chainIndex]
           treasurySplit == TreasurySplitOf(chainId, outcome)
       IN  /\ feeBatches' = IF Truthy(treasurySplit)
                              THEN Assign(feeBatches, chainId, NewFeeBatch(chainId, treasurySplit))
                              ELSE feeBatches
           /\ treasuryCall' = [chain |-> chainId, outcome |-> outcome]
  /\ IF chainIndex < Len(ChainOrder)
       THEN chainIndex' = chainIndex + 1 /\ pc' = pc
       ELSE chainIndex' = 0 /\ pc' = "setFeeBatchKey"
  /\ UNCHANGED <<now, store, vaultFees, tasks, cycle, cycleStart, written, saves, lastRead>>
  /\ UNCHANGED classifyVars

UpdateFeeBatches == UpdateFeeBatchesIn([chainId \in Chains |-> DeployedOutcome(chainId)])

\* setKey(FEE_BATCH_KEY) settles: initVaultFeeService arms the INIT_DELAY timer;
\* or it rejects, and initVaultFeeService with it.
SetFeeBatchKey ==
  /\ pc = "setFeeBatchKey"
  /\ \E ok \in BOOLEAN :
       IF ok
         THEN /\ store' = [store EXCEPT !.FEE_BATCHES = <<feeBatches>>]
              /\ pc' = "initDelay"
         ELSE /\ store' = store
              /\ pc' = "updateFeeBatchesRejected"
  /\ UNCHANGED <<now, feeBatches, vaultFees, chainIndex, tasks, cycle, cycleStart, written,
                 saves, lastRead, treasuryCall>>
  /\ UNCHANGED classifyVars

(***************************************************************************)
(* updateVaultFees and getChainFees.                                       *)
(***************************************************************************)
\* The second filter with >= for >
IsStaleFromExpiry(fees, id, dateNow) ==
  \/ id \notin DOMAIN fees
  \/ dateNow - fees[id].lastUpdated >= CACHE_EXPIRY

\* The second filter of updateVaultFees
IsStale(fees, id, dateNow) ==
  \/ id \notin DOMAIN fees
  \/ dateNow - fees[id].lastUpdated > CACHE_EXPIRY

\* chainVaults of updateVaultFees: the two filters, from the k-th vault on
RECURSIVE ChainVaultsFrom(_, _, _, _)
ChainVaultsFrom(fees, chain, dateNow, k) ==
  IF k > Len(MultichainVaults) THEN <<>>
  ELSE (IF MultichainVaults[k].chain = chain /\ IsStale(fees, MultichainVaults[k].id, dateNow)
          THEN <<MultichainVaults[k]>> ELSE <<>>)
         \o ChainVaultsFrom(fees, chain, dateNow, k + 1)

ChainVaults(fees, chain, dateNow) == ChainVaultsFrom(fees, chain, dateNow, 1)

\* The batches of getChainFees: slices of batchSize call contexts
NumBatches(n, batchSize) == (n + batchSize - 1) \div batchSize

Batch(vaults, batchSize, i) ==
  SubSeq(vaults, (i - 1) * batchSize + 1,
         IF i * batchSize < Len(vaults) THEN i * batchSize ELSE Len(vaults))

Pending == [status |-> "pending", value |-> <<>>]

Rejected == [status |-> "rejected", value |-> <<>>]

Fulfilled(value) == [status |-> "fulfilled", value |-> value]

\* getChainFees up to its await
GetChainFeesCall(chainVaults, chainId, feeBatch) ==
  IF ~HasMulticall(chainId)
    THEN [status |-> "skipped", vaults |-> chainVaults, results |-> <<>>, feeBatch |-> feeBatch]
  ELSE [status |-> IF Len(chainVaults) = 0 THEN "done" ELSE "awaiting",
        vaults |-> chainVaults,
        results |-> [i \in 1..NumBatches(Len(chainVaults), batchSizeForChain(chainId)) |-> Pending],
        feeBatch |-> feeBatch]

Settled(task) == task.status \in {"done", "skipped", "error"}

\* Promise.race in place of Promise.allSettled: the first chain to settle ends the wait
AnySettled(ts) == \E chain \in Chains : Settled(ts[chain])

AllSettled(ts) == \A chain \in Chains : Settled(ts[chain])

\* The getChainFees calls of a cycle started at dateNow
StartedTasks(fees, batches, dateNow) ==
  [chain \in Chains |->
     GetChainFeesCall(ChainVaults(fees, chain, dateNow), chain,
                      IF chain \in DOMAIN batches THEN <<batches[chain]>> ELSE <<>>)]

TimerInterval(at) == IF at = "initDelay" THEN INIT_DELAY ELSE REFRESH_INTERVAL

\* initVaultFeeService arming the timer without awaiting updateFeeBatches
TimerArmedWithoutAwait(at) == at \in {"updateFeeBatches", "setFeeBatchKey", "initDelay", "sleeping"}

\* updateVaultFees arming its timer before it awaits the chains
TimerArmedAtCycleStart(at) == at \in {"initDelay", "cycle", "saving", "sleeping"}

\* A setTimeout of updateVaultFees is pending
TimerArmed(at) == at \in {"initDelay", "sleeping"}

\* A timer fires (INIT_DELAY after the start, REFRESH_INTERVAL after a cycle) and
\* updateVaultFees runs up to its await: every chain's getChainFees is called.
UpdateVaultFees ==
  /\ TimerArmed(pc)
  /\ cycle < MaxCycles
  /\ \E slack \in TimerSlack :
       \E started \in {StartedTasks(vaultFees, feeBatches, now + TimerInterval(pc) + slack)} :
         /\ now' = now + TimerInterval(pc) + slack
         /\ tasks' = started
         /\ pc' = IF AllSettled(started) THEN "saving" ELSE "cycle"
         /\ saves' = IF AllSettled(started) THEN 1 ELSE 0
  /\ cycle' = cycle + 1
  /\ cycleStart' = vaultFees
  /\ written' = {}
  /\ UNCHANGED <<store, feeBatches, vaultFees, chainIndex, lastRead, treasuryCall>>
  /\ UNCHANGED classifyVars

\* The ContractCallResults of a fulfilled batch.  The state keeps, per strategy of
\* the batch, the calls that decoded with their return values.
ResultsValue(batch, answers) ==
  [j \in DOMAIN batch |-> ContractResult(batch[j].id, batch[j].strategy, answers[j])]

\* The merge going through the results up to the first rejected one only
RECURSIVE CallResponsesUntilRejected(_, _, _, _)
CallResponsesUntilRejected(vaults, batchSize, results, i) ==
  IF i > Len(results) \/ results[i].status # "fulfilled" THEN <<>>
  ELSE mapMulticallResults(ResultsValue(Batch(vaults, batchSize, i), results[i].value))
         \o CallResponsesUntilRejected(vaults, batchSize, results, i + 1)

\* The call responses of the fulfilled results, in the order of results.forEach
RECURSIVE CallResponses(_, _, _, _)
CallResponses(vaults, batchSize, results, i) ==
  IF i > Len(results) THEN <<>>
  ELSE (IF results[i].status = "fulfilled"
          THEN mapMulticallResults(ResultsValue(Batch(vaults, batchSize, i), results[i].value))
          ELSE <<>>)
         \o CallResponses(vaults, batchSize, results, i + 1)

\* The loop of results.forEach from the k-th call response on: the cache, the ids
\* assigned, and whether mapStrategyCallsToFeeBreakdown raised (which ends the loop).
RECURSIVE MergeFrom(_, _, _, _, _, _)
\* The loop body assigning vaultFees[id] = fees before it tests fees: an undefined
\* result leaves the id without a breakdown
MergeStepAssignsUndefined(fees, assigned, callResponses, k, feeBatch, dateNow, result) ==
  IF result.k = "throw"
    THEN [vaultFees |-> fees, written |-> assigned, threw |-> TRUE]
  ELSE IF result.k = "ok"
    THEN MergeFrom(Assign(fees, callResponses[k]["id"], Val(result)),
                   assigned \cup {callResponses[k]["id"]},
                   callResponses, k + 1, feeBatch, dateNow)
  ELSE MergeFrom([id \in DOMAIN fees \ {callResponses[k]["id"]} |-> fees[id]], assigned,
                 callResponses, k + 1, feeBatch, dateNow)

\* The loop body with a try/catch of its own: a raise skips the one vault
MergeStepCatchesRaise(fees, assigned, callResponses, k, feeBatch, dateNow, result) ==
  IF result.k = "ok"
    THEN MergeFrom(Assign(fees, callResponses[k]["id"], Val(result)),
                   assigned \cup {callResponses[k]["id"]},
                   callResponses, k + 1, feeBatch, dateNow)
  ELSE MergeFrom(fees, assigned, callResponses, k + 1, feeBatch, dateNow)

MergeStep(fees, assigned, callResponses, k, feeBatch, dateNow, result) ==
  IF result.k = "throw"
    THEN [vaultFees |-> fees, written |-> assigned, threw |-> TRUE]
  ELSE IF result.k = "ok"
    THEN MergeFrom(Assign(fees, callResponses[k]["id"], Val(result)),
                   assigned \cup {callResponses[k]["id"]},
                   callResponses, k + 1, feeBatch, dateNow)
  ELSE MergeFrom(fees, assigned, callResponses, k + 1, feeBatch, dateNow)

MergeFrom(fees, assigned, callResponses, k, feeBatch, dateNow) ==
  IF k > Len(callResponses)
    THEN [vaultFees |-> fees, written |-> assigned, threw |-> FALSE]
  ELSE MergeStep(fees, assigned, callResponses, k, feeBatch, dateNow,
                 mapStrategyCallsToFeeBreakdown(callResponses[k], feeBatch, dateNow))

MergeResults(fees, assigned, task, batchSize, results, dateNow) ==
  MergeFrom(fees, assigned, CallResponses(task.vaults, batchSize, results, 1), 1,
            task.feeBatch, dateNow)

\* getChainFees after a promise settled: still awaiting, or resumed and merged
NoPending(results) == \A j \in DOMAIN results : results[j].status # "pending"

Resumed(task, results, merged) ==
  [task EXCEPT !.results = results, !.status = IF merged.threw THEN "error" ELSE "done"]

\* getChainFees awaiting its batches with Promise.all: a rejected batch raises, the
\* catch logs it and nothing of the chain is merged
AfterSettleAll(ts, fees, assigned, chain, results, dateNow) ==
  IF NoPending(results) /\ \E j \in DOMAIN results : results[j].status = "rejected"
    THEN [tasks |-> [ts EXCEPT ![chain] = [@ EXCEPT !.results = results, !.status = "error"]],
          vaultFees |-> fees,
          written |-> assigned]
  ELSE IF NoPending(results)
    THEN LET merged == MergeResults(fees, assigned, ts[chain], batchSizeForChain(chain),
                                    results, dateNow)
         IN  [tasks |-> [ts EXCEPT ![chain] = Resumed(ts[chain], results, merged)],
              vaultFees |-> merged.vaultFees,
              written |-> merged.written]
    ELSE [tasks |-> [ts EXCEPT ![chain] = [@ EXCEPT !.results = results]],
          vaultFees |-> fees,
          written |-> assigned]

AfterSettle(ts, fees, assigned, chain, results, dateNow) ==
  IF NoPending(results)
    THEN LET merged == MergeResults(fees, assigned, ts[chain], batchSizeForChain(chain),
                                    results, dateNow)
         IN  [tasks |-> [ts EXCEPT ![chain] = Resumed(ts[chain], results, merged)],
              vaultFees |-> merged.vaultFees,
              written |-> merged.written]
    ELSE [tasks |-> [ts EXCEPT ![chain] = [@ EXCEPT !.results = results]],
          vaultFees |-> fees,
          written |-> assigned]

\* The answers a batch may get: one per strategy
BatchAnswers(batch) ==
  {answers \in [DOMAIN batch -> UNION {StrategyAnswers(batch[j].id) : j \in DOMAIN batch}] :
     \A j \in DOMAIN batch : answers[j] \in StrategyAnswers(batch[j].id)}

BatchOutcomes(batch) == {Rejected} \cup {Fulfilled(answers) : answers \in BatchAnswers(batch)}

\* A multicall.call(batch) promise settles.  When it is the chain's last one,
\* getChainFees resumes and merges the chain's results; when that was the cycle's
\* last chain, updateVaultFees resumes and calls saveToRedis.
MulticallSettles ==
  /\ pc = "cycle"
  /\ \E chain \in Chains :
       /\ tasks[chain].status = "awaiting"
       /\ \E i \in DOMAIN tasks[chain].results :
            /\ tasks[chain].results[i].status = "pending"
            /\ \E outcome \in BatchOutcomes(Batch(tasks[chain].vaults,
                                                  batchSizeForChain(chain), i)) :
                 \E after \in {AfterSettle(tasks, vaultFees, written, chain,
                                           [tasks[chain].results EXCEPT ![i] = outcome], now)} :
                   /\ tasks' = after.tasks
                   /\ vaultFees' = after.vaultFees
                   /\ written' = after.written
                   /\ pc' = IF AllSettled(after.tasks) THEN "saving" ELSE "cycle"
                   /\ saves' = IF AllSettled(after.tasks) THEN saves + 1 ELSE saves
  /\ UNCHANGED <<now, store, feeBatches, chainIndex, cycle, cycleStart, lastRead, treasuryCall>>
  /\ UNCHANGED classifyVars

\* setKey(VAULT_FEES_KEY) settles: updateVaultFees arms the REFRESH_INTERVAL timer;
\* or it rejects, and updateVaultFees with it.
SaveToRedis ==
  /\ pc = "saving"
  /\ \E ok \in BOOLEAN :
       IF ok
         THEN /\ store' = [store EXCEPT !.VAULT_FEES = <<vaultFees>>]
              /\ pc' = "sleeping"
         ELSE /\ store' = store
              /\ pc' = "updateVaultFeesRejected"
  /\ UNCHANGED <<now, feeBatches, vaultFees, chainIndex, tasks, cycle, cycleStart, written,
                 saves, lastRead, treasuryCall>>
  /\ UNCHANGED classifyVars

(***************************************************************************)
(* The exposed reads.                                                      *)
(***************************************************************************)
ReadIds == {"cake-bnb", "unknown"}

\* The read with the legacy total 0.045 as its default
getTotalPerformanceFeeForVaultLegacyDefault(fees, vaultId) ==
  IF vaultId \notin DOMAIN fees THEN Num(45, 1000)
  ELSE fees[vaultId].performance.total

getTotalPerformanceFeeForVault(fees, vaultId) ==
  IF vaultId \notin DOMAIN fees THEN Num(95, 1000)
  ELSE fees[vaultId].performance.total

\* vaultFees is assigned once the two getKey calls of initVaultFeeService resolved
Hydrated(at) == at \notin {"start", "getKeyRejected"}

\* A caller reads; while vaultFees is not assigned the read raises a TypeError.
GetTotalPerformanceFeeForVault ==
  /\ \E vaultId \in ReadIds :
       lastRead' = [id |-> vaultId,
                    result |-> IF ~Hydrated(pc) THEN Throws
                               ELSE Ok(getTotalPerformanceFeeForVault(vaultFees, vaultId))]
  /\ UNCHANGED <<pc, now, store, feeBatches, vaultFees, chainIndex, tasks, cycle, cycleStart,
                 written, saves, treasuryCall>>
  /\ UNCHANGED classifyVars

Next ==
  \/ InitVaultFeeService
  \/ UpdateFeeBatches
  \/ SetFeeBatchKey
  \/ UpdateVaultFees
  \/ MulticallSettles
  \/ SaveToRedis
  \/ GetTotalPerformanceFeeForVault

Spec == Init /\ [][Next]_vars

(***************************************************************************)
(* The registry alone: initVaultFeeService up to its timer, from every     *)
(* store and with every outcome of treasuryFee() on every chain.           *)
(***************************************************************************)
RegistryInit ==
  /\ pc = "start"
  /\ now = StartTime
  /\ store \in AnyStore
  /\ feeBatches = EmptyMap
  /\ vaultFees = EmptyMap
  /\ chainIndex = 0
  /\ tasks = [chain \in Chains |-> IdleTask]
  /\ cycle = 0
  /\ cycleStart = EmptyMap
  /\ written = {}
  /\ saves = 0
  /\ lastRead = NoRead
  /\ treasuryCall = NoCall
  /\ cCalls = <<>>
  /\ cFeeBatch = <<>>
  /\ cOut = <<>>

RefreshFeeBatches == UpdateFeeBatchesIn([chainId \in Chains |-> AnyOutcome(chainId)])

RegistryNext ==
  \/ InitVaultFeeService
  \/ RefreshFeeBatches
  \/ SetFeeBatchKey

RegistrySpec == RegistryInit /\ [][RegistryNext]_vars

(***************************************************************************)
(* The classification alone: mapStrategyCallsToFeeBreakdown and the        *)
(* functions it calls, on the call responses that mapMulticallResults      *)
(* makes of the answers below.                                             *)
(***************************************************************************)
\* A record of return values, <<>> for a call that did not decode, as the
\* decoded calls of a ContractResult
Decoded(r) == [ref \in {f \in DOMAIN r : r[f] # <<>>} |-> r[ref]]

AllFeesAnswer == <<<<Big(95), Big(90), Big(5), Big(0)>>, Big(100), Big(0)>>

\* An aggregate getter with deposit 0 and withdraw 10
AllFeesNoDeposit == <<<<Big(95), Big(90), Big(5), Big(0)>>, Big(0), Big(10)>>

BreakdownAnswer == <<Big(50), Big(30), Big(10), Big(10)>>

\* The individual fee accessors, with and without the getters
FeeAnswers ==
  {Decoded(r) : r \in
     [allFees : {<<>>, AllFeesAnswer},
      breakdown : {<<>>, BreakdownAnswer},
      call : {<<>>, <<Big(500)>>},
      strategist : {<<>>, <<Big(0)>>},
      beefy : {<<>>, <<Big(4000)>>, <<Big(9500)>>},
      fee : {<<>>, <<Big(9500)>>},
      treasury : {<<>>, <<Big(4000)>>},
      rewards : {<<>>, <<Big(5500)>>},
      maxFee : {<<>>, <<Big(10000)>>}]}

\* The variants of the accessors
VariantAnswers ==
  {Decoded(r) : r \in
     [call2 : {<<>>, <<Big(400)>>},
      call4 : {<<>>, <<Big(300)>>},
      strategist2 : {<<>>, <<Big(100)>>},
      beefy : {<<Big(9500)>>},
      rewards2 : {<<>>, <<Big(600)>>},
      maxFee2 : {<<>>, <<Big(10000)>>},
      maxFee3 : {<<>>, <<Big(0)>>},
      maxCallFee : {<<>>, <<Big(100)>>}]}

\* The withdrawal accessors
WithdrawAnswers ==
  {Decoded(r) : r \in
     [allFees : {<<>>, AllFeesAnswer, AllFeesNoDeposit},
      withdraw : {<<>>, <<Big(10)>>},
      withdraw2 : {<<>>, <<Big(20)>>},
      withdrawMax : {<<>>, <<Big(10000)>>},
      withdrawMax2 : {<<>>, <<Big(1000)>>},
      paused : {<<>>, <<Bool(TRUE)>>, <<Bool(FALSE)>>},
      call : {<<Big(500)>>},
      strategist : {<<Big(0)>>},
      beefy : {<<Big(9500)>>},
      maxFee : {<<Big(10000)>>}]}

ClassifyAnswers == FeeAnswers \cup VariantAnswers \cup WithdrawAnswers

\* Vault ids and strategy addresses: plain, and the addresses performanceForMaxi names
ClassifyTargets ==
  {<<"cake-bnb", "0x1111111111111111111111111111111111111111">>,
   <<"cake-cakev2-eol", "0x1111111111111111111111111111111111111111">>,
   <<"cake-bnb", "0xca077eEC87e2621F5B09AFE47C42BAF88c6Af18c">>,
   <<"bifi-maxi", "0x1111111111111111111111111111111111111111">>,
   <<"bifi-maxi", "0x436D5127F16fAC1F021733dda090b5E6DE30b3bB">>,
   <<"bifi-maxi", "0xb25eB9105549627050AAB3A1c909fBD454014beA">>,
   <<"avax-bifi-maxi", "0xca077eEC87e2621F5B09AFE47C42BAF88c6Af18c">>,
   <<"bifi-maxi", "0x87056f5e8dce0fd71605e6e291c6a3b53cbc3818">>}

ClassifyFeeBatches ==
  {NoFeeBatch, <<FeeBatchDetail("bsc", 140)>>, <<FeeBatchDetail("zksync", 640)>>}

ClassifyInit ==
  /\ \E target \in ClassifyTargets, answers \in ClassifyAnswers :
       cCalls = MapContractResult(ContractResult(target[1], target[2], answers))
  /\ cFeeBatch \in ClassifyFeeBatches
  /\ cOut = <<>>
  /\ pc = "off"
  /\ now = StartTime
  /\ store = [VAULT_FEES |-> <<>>, FEE_BATCHES |-> <<>>]
  /\ feeBatches = EmptyMap
  /\ vaultFees = EmptyMap
  /\ chainIndex = 0
  /\ tasks = [chain \in Chains |-> IdleTask]
  /\ cycle = 0
  /\ cycleStart = EmptyMap
  /\ written = {}
  /\ saves = 0
  /\ lastRead = NoRead
  /\ treasuryCall = NoCall

\* What the classification functions return on cCalls
Classified(contractCalls, feeBatch, dateNow) ==
  [withdraw |-> withdrawalFeeFromCalls(contractCalls),
   performance |-> performanceFeesFromCalls(contractCalls, feeBatch),
   deposit |-> depositFeeFromCalls(contractCalls),
   breakdown |-> mapStrategyCallsToFeeBreakdown(contractCalls, feeBatch, dateNow)]

Classify ==
  /\ cOut = <<>>
  /\ pc = "off"
  /\ cOut' = <<Classified(cCalls, cFeeBatch, now)>>
  /\ UNCHANGED <<cCalls, cFeeBatch>>
  /\ UNCHANGED serviceVars

ClassifyNext == Classify

ClassifySpec == ClassifyInit /\ [][ClassifyNext]_vars

(***************************************************************************)
(* Properties.  C1, C2, C3, C8, C10, C12, C14 to C17 and C22 are stated   *)
(* of Spec, C7 and C11 of RegistrySpec, C4, C5, C6, C9, C13 and C18 to C21 *)
(* of ClassifySpec.                                                        *)
(***************************************************************************)
\* The call responses of the chain's fulfilled batches, in the order they are merged
ResponsesOf(chain) ==
  CallResponses(tasks[chain].vaults, batchSizeForChain(chain), tasks[chain].results, 1)

\* What the k-th of them classifies to in the current cycle
ClassifiedAs(chain, k) ==
  mapStrategyCallsToFeeBreakdown(ResponsesOf(chain)[k], tasks[chain].feeBatch, now)

\* The merge of the chain came to the k-th response and classified it: no
\* classification up to it raised
ReachedInMerge(chain, k) == \A j \in 1..k : ClassifiedAs(chain, j).k # "throw"

\* getChainFees of the chain resumed after its batches settled
Merged(chain) == tasks[chain].status \in {"done", "error"}

\* A batch call of the chain rejected, or its merge raised
ChainFailed(chain) ==
  \/ tasks[chain].status = "error"
  \/ \E i \in DOMAIN tasks[chain].results : tasks[chain].results[i].status = "rejected"

\* The vault of the k-th response holds in the cache what it classified to, written
\* by the current cycle
WrittenAsClassified(chain, k) ==
  /\ ResponsesOf(chain)[k]["id"] \in written
  /\ ResponsesOf(chain)[k]["id"] \in DOMAIN vaultFees
  /\ vaultFees[ResponsesOf(chain)[k]["id"]] = Val(ClassifiedAs(chain, k))

\* C1: within a cycle, when a chain fails (a batch call of it rejects, or its merge
\* raises), every vault of every other chain that was classified to a breakdown is
\* written to the cache in that cycle, whichever chain fails and in whatever order
\* the batch calls settle; and the cycle goes on to its one save once every chain
\* has settled.
FailureIsolation ==
  /\ \A failing \in Chains :
       ChainFailed(failing) =>
         \A chain \in Chains \ {failing} :
           Merged(chain) =>
             \A k \in DOMAIN ResponsesOf(chain) :
               (ReachedInMerge(chain, k) /\ ClassifiedAs(chain, k).k = "ok")
                 => WrittenAsClassified(chain, k)
  /\ (cycle > 0 /\ AllSettled(tasks)) => (saves = 1 /\ pc # "cycle")

\* A cycle in which a batch of bsc rejected while polygon and zksync wrote
FailureIsolationWitness ==
  /\ pc = "saving"
  /\ \E i \in DOMAIN tasks["bsc"].results : tasks["bsc"].results[i].status = "rejected"
  /\ {"quick-eth", "sync-usdc"} \subseteq written

\* C2: a failure of the set of the vault-fee cache ends the cycle and not the
\* refreshing: when the cycle's save settles, whether it succeeded or failed, the
\* timer of the next cycle is armed.
PersistFailureIsRetried ==
  [][(pc = "saving" /\ pc' # pc) => TimerArmed(pc')]_vars

\* The set of the vault-fee cache failed in the first cycle, after vaults were written
PersistFailureWitness ==
  /\ pc = "updateVaultFeesRejected"
  /\ cycle = 1
  /\ written # {}
  /\ store.VAULT_FEES = <<>>

\* The vault is among the chainVaults of the current cycle
SelectedIn(ts, vault) ==
  \E k \in DOMAIN ts[vault.chain].vaults : ts[vault.chain].vaults[k].id = vault.id

TwelveHours == 12 * 60 * 60 * 1000

\* The vault had no breakdown when the cycle started, or one older than twelve hours
AbsentOrExpired(id) ==
  \/ id \notin DOMAIN cycleStart
  \/ now - cycleStart[id].lastUpdated > TwelveHours

\* The cycle did not touch the entry of the vault
EntryAsAtCycleStart(id) ==
  /\ id \notin written
  /\ id \in DOMAIN vaultFees <=> id \in DOMAIN cycleStart
  /\ id \in DOMAIN cycleStart => vaultFees[id] = cycleStart[id]

\* C3: in every cycle a vault is selected if and only if it had no cached breakdown
\* or one whose lastUpdated is more than twelve hours before the cycle's start; a
\* vault that is not selected keeps its entry unchanged through the cycle.
StalenessGate ==
  cycle > 0 =>
    \A i \in DOMAIN MultichainVaults :
      /\ SelectedIn(tasks, MultichainVaults[i]) <=> AbsentOrExpired(MultichainVaults[i].id)
      /\ ~SelectedIn(tasks, MultichainVaults[i]) => EntryAsAtCycleStart(MultichainVaults[i].id)

\* A first cycle ended in which an entry of exactly twelve hours was left out and
\* left as it was, and one of twelve hours and a millisecond was selected
StalenessGateWitness ==
  /\ cycle = 1
  /\ pc = "saving"
  /\ {"cake-bnb", "bifi-maxi"} \subseteq DOMAIN cycleStart
  /\ now - cycleStart["bifi-maxi"].lastUpdated = TwelveHours
  /\ now - cycleStart["cake-bnb"].lastUpdated = TwelveHours + 1
  /\ SelectedIn(tasks, VaultOf("cake-bnb"))
  /\ ~SelectedIn(tasks, VaultOf("bifi-maxi"))
  /\ vaultFees["bifi-maxi"] = cycleStart["bifi-maxi"]
  /\ "cake-bnb" \in written

\* The probe with its id, its strategy and one response only
Only(contractCalls, ref) == [r \in {"id", "strategy", ref} |-> contractCalls[r]]

\* C4: a probe with an allFees response has its performance, withdraw and deposit
\* fee derived from that response, the same as the probe with no other response
\* has, whatever the id, the strategy and the other responses are; without allFees,
\* a probe with a breakdown response has its performance fee derived from that
\* response.
GenerationPrecedence ==
  cOut # <<>> =>
    /\ Has(cCalls, "allFees") =>
         /\ cOut[1].performance = performanceFromGetFees(cCalls["allFees"].performance, cFeeBatch)
         /\ cOut[1].withdraw = Num(cCalls["allFees"].withdraw, 10000)
         /\ cOut[1].deposit = <<Num(cCalls["allFees"].deposit, 10000)>>
         /\ cOut[1] = Classified(Only(cCalls, "allFees"), cFeeBatch, now)
    /\ (~Has(cCalls, "allFees") /\ Has(cCalls, "breakdown")) =>
         /\ cOut[1].performance = performanceFromGetFees(cCalls["breakdown"], cFeeBatch)
         /\ cOut[1].performance = performanceFeesFromCalls(Only(cCalls, "breakdown"), cFeeBatch)

\* A -maxi vault with both getters and legacy accessors, classified from allFees
GenerationPrecedenceWitness ==
  /\ cOut # <<>>
  /\ cCalls["id"] = "bifi-maxi"
  /\ {"allFees", "breakdown", "call", "beefy", "maxFee"} \subseteq DOMAIN cCalls
  /\ cFeeBatch # NoFeeBatch
  /\ cOut[1].performance.k = "ok"
  /\ Val(cOut[1].performance).total = Num(95, 1000)

\* The addresses performanceForMaxi names, lower-cased
ListedMaxiAddresses == MaxiCallOnly1000 \cup MaxiLegacy45 \cup {MaxiAvax, MaxiOldBifi}

\* The probe takes the -maxi path of performanceFeesFromCalls
OnMaxiPath(contractCalls) ==
  /\ ~Has(contractCalls, "allFees")
  /\ ~Has(contractCalls, "breakdown")
  /\ IncludesMaxi(contractCalls["id"])

\* What performanceForMaxi writes down for a listed address
ListedMaxiFee(address, callFee, maxFee, rewards) ==
  IF address \in MaxiCallOnly1000
    THEN PerformanceFee(JsDiv(callFee, Whole(1000)), JsDiv(callFee, Whole(1000)),
                        Whole(0), Whole(0), Whole(0))
  ELSE IF address \in MaxiLegacy45
    THEN PerformanceFee(JsDiv(JsMul(Num(45, 1000), callFee), maxFee),
                        JsDiv(JsMul(Num(45, 1000), callFee), maxFee),
                        Whole(0), Whole(0), Whole(0))
  ELSE IF address = MaxiAvax
    THEN PerformanceFee(Num(5, 1000), Num(5, 1000), Whole(0), Whole(0), Whole(0))
  ELSE PerformanceFee(JsDiv(JsAdd(callFee, rewards), maxFee), JsDiv(callFee, maxFee),
                      Whole(0), Whole(0), JsDiv(rewards, maxFee))

\* C5, as amended: a probe of a -maxi vault without allFees and breakdown whose
\* lower-cased strategy address is listed yields what is written down for that
\* address: call/1000, 0.045*call/maxFee, the constant 0.005 (the avax maxi only)
\* or (call+rewards)/maxFee split into call and stakers; a probe with a listed
\* address that is not on that path is classified by its getter or as legacy.
MaxiAllowListFormula ==
  (cOut # <<>> /\ ToLowerCase(cCalls["strategy"]) \in ListedMaxiAddresses) =>
    /\ OnMaxiPath(cCalls) =>
         cOut[1].performance =
           Ok(ListedMaxiFee(ToLowerCase(cCalls["strategy"]), CallFeeOf(cCalls),
                            MaxFeeOf(cCalls), RewardsOf(cCalls)))
    /\ (OnMaxiPath(cCalls) /\ ToLowerCase(cCalls["strategy"]) = MaxiAvax) =>
         cOut[1].performance = performanceFeesFromCalls(Only(cCalls, "id"), cFeeBatch)
    /\ Has(cCalls, "allFees") =>
         cOut[1].performance = performanceFromGetFees(cCalls["allFees"].performance, cFeeBatch)
    /\ (~Has(cCalls, "allFees") /\ ~Has(cCalls, "breakdown") /\ ~IncludesMaxi(cCalls["id"])) =>
         cOut[1].performance = legacyFeeMappings(cCalls, cFeeBatch)

\* A -maxi vault at a listed address, written with capitals, whose fee follows
\* its call fee and max fee
MaxiAllowListWitness ==
  /\ cOut # <<>>
  /\ cCalls["id"] = "bifi-maxi"
  /\ cCalls["strategy"] = "0xb25eB9105549627050AAB3A1c909fBD454014beA"
  /\ OnMaxiPath(cCalls)
  /\ CallFeeOf(cCalls) = Whole(500)
  /\ MaxFeeOf(cCalls) = Whole(10000)
  /\ cOut[1].performance =
       Ok(PerformanceFee(Num(225, 100000), Num(225, 100000), Whole(0), Whole(0), Whole(0)))

\* C5, as the specification states it: a probe whose strategy address is listed
\* yields a performance fee fixed by the address, the same as the probe with no
\* accessor response has.
MaxiAllowListConstant ==
  (cOut # <<>> /\ ToLowerCase(cCalls["strategy"]) \in ListedMaxiAddresses) =>
    cOut[1].performance = performanceFeesFromCalls(Only(cCalls, "id"), cFeeBatch)

\* The probe takes the legacy path of performanceFeesFromCalls
OnLegacyPath(contractCalls) ==
  /\ ~Has(contractCalls, "allFees")
  /\ ~Has(contractCalls, "breakdown")
  /\ ~IncludesMaxi(contractCalls["id"])

\* call + strategist + beefy === maxFee
SumsCallStrategistBeefy(contractCalls) ==
  StrictEq(JsAdd(JsAdd(CallFeeOf(contractCalls), StrategistFeeOf(contractCalls)),
                 Get(contractCalls, "beefy")),
           MaxFeeOf(contractCalls))

\* One of the later tests of a sum against maxFee holds
SumsLaterShape(contractCalls) ==
  \/ StrictEq(JsAdd(JsAdd(CallFeeOf(contractCalls), Get(contractCalls, "treasury")),
                    RewardsOf(contractCalls)),
              MaxFeeOf(contractCalls))
  \/ StrictEq(JsAdd(JsAdd(JsAdd(CallFeeOf(contractCalls), StrategistFeeOf(contractCalls)),
                          RewardsOf(contractCalls)),
                    Get(contractCalls, "treasury")),
              MaxFeeOf(contractCalls))
  \/ StrictEq(JsAdd(Get(contractCalls, "fee"), CallFeeOf(contractCalls)),
              MaxFeeOf(contractCalls))
  \/ StrictEq(JsAdd(CallFeeOf(contractCalls), Get(contractCalls, "beefy")),
              MaxFeeOf(contractCalls))

\* total 0.045 shared by call, strategist and beefy over maxFee, beefy's share
\* split between treasury and stakers by the chain's split
BeefySplitFee(contractCalls, detail) ==
  PerformanceFee(
    Num(45, 1000),
    JsDiv(JsMul(Num(45, 1000), CallFeeOf(contractCalls)), MaxFeeOf(contractCalls)),
    JsDiv(JsMul(Num(45, 1000), StrategistFeeOf(contractCalls)), MaxFeeOf(contractCalls)),
    JsDiv(JsMul(JsMul(Num(45, 1000), detail.treasurySplit), Get(contractCalls, "beefy")),
          MaxFeeOf(contractCalls)),
    JsDiv(JsMul(JsMul(Num(45, 1000), detail.stakerSplit), Get(contractCalls, "beefy")),
          MaxFeeOf(contractCalls)))

\* C6: a legacy probe that satisfies call + strategist + beefy == maxFee and a later
\* shape as well (call + treasury + rewards == maxFee in particular) gets the
\* breakdown of the first: treasury and stakers are the chain split applied to beefy.
FirstShapeWins ==
  (/\ cOut # <<>>
   /\ OnLegacyPath(cCalls)
   /\ cFeeBatch # NoFeeBatch
   /\ SumsCallStrategistBeefy(cCalls)
   /\ SumsLaterShape(cCalls))
    => cOut[1].performance = Ok(BeefySplitFee(cCalls, cFeeBatch[1]))

\* The probe call 500, strategist 0, beefy 9500, treasury 4000, rewards 5500,
\* maxFee 10000: both sums are 10000, and treasury is 0.045 * 0.14 * 9500 / 10000
FirstShapeWinsWitness ==
  /\ cOut # <<>>
  /\ OnLegacyPath(cCalls)
  /\ cFeeBatch # NoFeeBatch
  /\ SumsCallStrategistBeefy(cCalls)
  /\ StrictEq(JsAdd(JsAdd(CallFeeOf(cCalls), Get(cCalls, "treasury")), RewardsOf(cCalls)),
              MaxFeeOf(cCalls))
  /\ Get(cCalls, "treasury") = Whole(4000)
  /\ cOut[1].performance.k = "ok"
  /\ Val(cOut[1].performance).treasury = Num(1197, 200000)
  /\ Val(cOut[1].performance).stakers = Num(7353, 200000)

\* treasurySplit + stakerSplit == 1 and 0 <= treasurySplit <= 1
SplitOfOne(detail) ==
  /\ JsAdd(detail.treasurySplit, detail.stakerSplit) = Whole(1)
  /\ detail.treasurySplit.t = "number"
  /\ 0 <= detail.treasurySplit.n
  /\ detail.treasurySplit.n <= detail.treasurySplit.d

\* C7: every FeeBatchDetail of the registry, in memory and in the store, has splits
\* that sum to 1 with treasurySplit in [0,1], whatever was hydrated and however the
\* treasuryFee() calls ended (a value in parts per 1000, a revert, the estimation
\* failure of zksync, another failure).
FeeBatchSplitsSumToOne ==
  /\ \A chain \in DOMAIN feeBatches : SplitOfOne(feeBatches[chain])
  /\ store.FEE_BATCHES # <<>> =>
       \A chain \in DOMAIN store.FEE_BATCHES[1] : SplitOfOne(store.FEE_BATCHES[1][chain])

\* A registry persisted with a read value (bsc), an entry hydrated and kept through
\* a failure that is no revert (polygon), the 640 of zksync and the 140 of a revert
FeeBatchSplitsWitness ==
  /\ pc = "initDelay"
  /\ DOMAIN feeBatches = Chains
  /\ feeBatches["bsc"].treasurySplit = Num(1, 2)
  /\ feeBatches["bsc"].stakerSplit = Num(1, 2)
  /\ feeBatches["polygon"].treasurySplit = Num(140, 1000)
  /\ feeBatches["zksync"].treasurySplit = Num(640, 1000)
  /\ feeBatches["zksync"].stakerSplit = Num(360, 1000)
  /\ feeBatches["emerald"].stakerSplit = Num(860, 1000)
  /\ store.FEE_BATCHES = <<feeBatches>>

ExampleProbe ==
  /\ cOut # <<>>
  /\ DOMAIN cCalls = {"id", "strategy", "call", "strategist", "beefy", "maxFee"}
  /\ cCalls["call"] = Whole(500)
  /\ cCalls["strategist"] = Whole(0)
  /\ cCalls["beefy"] = Whole(4000)
  /\ cCalls["maxFee"] = Whole(10000)
  /\ ~IncludesMaxi(cCalls["id"])
  /\ cFeeBatch # NoFeeBatch
  /\ cFeeBatch[1].treasurySplit = Num(14, 100)
  /\ cFeeBatch[1].stakerSplit = Num(86, 100)

\* total 0.045, call 0.00225, strategist 0, treasury 0.045*0.14*4000/10000,
\* stakers 0.045*0.86*4000/10000
ExampleFee ==
  PerformanceFee(Num(45, 1000), Num(225, 100000), Whole(0),
                 JsDiv(JsMul(JsMul(Num(45, 1000), Num(14, 100)), Whole(4000)), Whole(10000)),
                 JsDiv(JsMul(JsMul(Num(45, 1000), Num(86, 100)), Whole(4000)), Whole(10000)))

\* C9, as amended: the example probe does not satisfy call + strategist + beefy ==
\* maxFee (the sum is 4500) nor any other sum; it is classified by the test that
\* strategist, call and beefy are all present, to total 0.045, call 0.00225,
\* strategist 0, treasury 0.00252 and stakers 0.01548.
ExampleClassifiedByPresence ==
  ExampleProbe =>
    /\ ~SumsCallStrategistBeefy(cCalls)
    /\ JsAdd(JsAdd(cCalls["call"], cCalls["strategist"]), cCalls["beefy"]) = Whole(4500)
    /\ ~IsNaN(JsAdd(JsAdd(cCalls["strategist"], cCalls["call"]), cCalls["beefy"]))
    /\ cOut[1].performance = Ok(ExampleFee)
    /\ Val(cOut[1].performance).treasury = Num(252, 100000)
    /\ Val(cOut[1].performance).stakers = Num(1548, 100000)

\* The example probe, classified
ExampleWitness ==
  /\ ExampleProbe
  /\ cCalls["id"] = "cake-bnb"
  /\ cOut[1].performance = Ok(ExampleFee)
  /\ cOut[1].breakdown.k = "ok"

\* C9, as the specification states it: the example probe matches the shape
\* call + strategist + beefy == maxFee and classifies to the example's values.
ExampleMatchesSumShape ==
  ExampleProbe =>
    /\ SumsCallStrategistBeefy(cCalls)
    /\ cOut[1].performance = Ok(ExampleFee)

\* C10: a vault whose probe matches no shape (its classification returns undefined)
\* gets no breakdown in the cycle and keeps its previous entry, or stays absent;
\* the vaults classified to a breakdown in the same merge are written.
UnmatchedIsContained ==
  \A chain \in Chains :
    Merged(chain) =>
      \A k \in DOMAIN ResponsesOf(chain) :
        (ReachedInMerge(chain, k) /\ ClassifiedAs(chain, k).k = "undefined") =>
          /\ EntryAsAtCycleStart(ResponsesOf(chain)[k]["id"])
          /\ \A other \in DOMAIN ResponsesOf(chain) :
               (ReachedInMerge(chain, other) /\ ClassifiedAs(chain, other).k = "ok")
                 => WrittenAsClassified(chain, other)

\* cake-bnb matched no shape and kept its hydrated entry while bifi-maxi, of the
\* same batch, was written
UnmatchedIsContainedWitness ==
  /\ pc = "saving"
  /\ tasks["bsc"].status = "done"
  /\ "cake-bnb" \in DOMAIN cycleStart
  /\ \E k \in DOMAIN ResponsesOf("bsc") :
       /\ ResponsesOf("bsc")[k]["id"] = "cake-bnb"
       /\ ClassifiedAs("bsc", k).k = "undefined"
  /\ vaultFees["cake-bnb"] = cycleStart["cake-bnb"]
  /\ Len(tasks["bsc"].vaults) >= 2
  /\ tasks["bsc"].vaults[1].id = "cake-bnb"
  /\ tasks["bsc"].vaults[2].id = "bifi-maxi"
  /\ "bifi-maxi" \in written

\* The call failed, not by a revert or an ABI mismatch and not by the estimation
\* failure of zksync
OtherFailure(call) ==
  /\ call.outcome.k = "error"
  /\ call.outcome.message \notin {"execution reverted", "is not using the correct ABI"}
  /\ ~(call.chain = "zksync" /\ call.outcome.message = "cannot estimate gas")

\* C11: when the treasuryFee() call of a chain fails with another signature than a
\* revert, an ABI mismatch or the estimation failure of zksync, the registry is left
\* as it was (no entry created, none overwritten, nothing persisted by the step)
\* and the refresh goes on to the next chain, or to its save after the last.
OtherFailureKeepsSplit ==
  [][(pc = "updateFeeBatches" /\ treasuryCall' # treasuryCall /\ OtherFailure(treasuryCall')) =>
       /\ treasuryCall'.chain = ChainOrder[chainIndex]
       /\ feeBatches' = feeBatches
       /\ store' = store
       /\ IF chainIndex < Len(ChainOrder)
            THEN pc' = "updateFeeBatches" /\ chainIndex' = chainIndex + 1
            ELSE pc' = "setFeeBatchKey"]_vars

\* The call of polygon timed out after bsc got an entry: the hydrated entry of
\* polygon is kept and zksync is next
OtherFailureWitness ==
  /\ pc = "updateFeeBatches"
  /\ treasuryCall = [chain |-> "polygon", outcome |-> Error("timeout")]
  /\ store.FEE_BATCHES # <<>>
  /\ feeBatches["polygon"] = store.FEE_BATCHES[1]["polygon"]
  /\ "bsc" \in DOMAIN feeBatches
  /\ ChainOrder[chainIndex] = "zksync"

\* The vaults of the i-th batch of the chain
BatchOf(chain, i) == Batch(tasks[chain].vaults, batchSizeForChain(chain), i)

BatchRejected(chain, i) == tasks[chain].results[i].status = "rejected"

BatchFulfilled(chain, i) == tasks[chain].results[i].status = "fulfilled"

\* The call responses of the i-th batch, which fulfilled
BatchResponses(chain, i) ==
  mapMulticallResults(ResultsValue(BatchOf(chain, i), tasks[chain].results[i].value))

\* What the j-th strategy of the i-th batch classifies to
BatchClassifiedAs(chain, i, j) ==
  mapStrategyCallsToFeeBreakdown(BatchResponses(chain, i)[j], tasks[chain].feeBatch, now)

\* No classification raised in the chain's merge up to the j-th strategy of the
\* i-th batch
NoRaiseUpTo(chain, i, j) ==
  \A i2 \in 1..i :
    BatchFulfilled(chain, i2) =>
      \A j2 \in DOMAIN BatchResponses(chain, i2) :
        (i2 < i \/ j2 <= j) => BatchClassifiedAs(chain, i2, j2).k # "throw"

\* The j-th strategy of the i-th batch holds in the cache what it classified to
BatchWrittenAsClassified(chain, i, j) ==
  /\ BatchResponses(chain, i)[j]["id"] \in written
  /\ BatchResponses(chain, i)[j]["id"] \in DOMAIN vaultFees
  /\ vaultFees[BatchResponses(chain, i)[j]["id"]] = Val(BatchClassifiedAs(chain, i, j))

SumsToMaxFee(contractCalls) ==
  SumsCallStrategistBeefy(contractCalls) \/ SumsLaterShape(contractCalls)

\* !isNaN(strategist + call + beefy): the three responded
RespondedStrategistCallBeefy(contractCalls) ==
  ~IsNaN(JsAdd(JsAdd(StrategistFeeOf(contractCalls), CallFeeOf(contractCalls)),
               Get(contractCalls, "beefy")))

\* !isNaN(strategist + call + treasury): the three responded
RespondedStrategistCallTreasury(contractCalls) ==
  ~IsNaN(JsAdd(JsAdd(StrategistFeeOf(contractCalls), CallFeeOf(contractCalls)),
               Get(contractCalls, "treasury")))

\* C13, as amended: a legacy probe is accepted when the component sum of a shape
\* equals maxFee, and also, whatever the sums are, when strategist, call and beefy
\* all responded or strategist, call and treasury all responded; only a probe with
\* neither gets no performance fee and no breakdown.
LegacyAcceptedBySumOrPresence ==
  (cOut # <<>> /\ OnLegacyPath(cCalls)) =>
    /\ cOut[1].performance # ReturnsUndefined
         <=> \/ SumsToMaxFee(cCalls)
             \/ RespondedStrategistCallBeefy(cCalls)
             \/ RespondedStrategistCallTreasury(cCalls)
    /\ cOut[1].performance = ReturnsUndefined => cOut[1].breakdown = ReturnsUndefined
    /\ (~SumsToMaxFee(cCalls) /\ RespondedStrategistCallBeefy(cCalls) /\ cFeeBatch # NoFeeBatch)
         => cOut[1].performance = Ok(BeefySplitFee(cCalls, cFeeBatch[1]))

\* A probe with strategist 0, call 500 and treasury 4000 of maxFee 10000, and no
\* beefy: no sum is 10000 and it has a breakdown
LegacyAcceptedWitness ==
  /\ cOut # <<>>
  /\ OnLegacyPath(cCalls)
  /\ ~SumsToMaxFee(cCalls)
  /\ ~RespondedStrategistCallBeefy(cCalls)
  /\ RespondedStrategistCallTreasury(cCalls)
  /\ MaxFeeOf(cCalls) = Whole(10000)
  /\ cOut[1].performance.k = "ok"
  /\ Val(cOut[1].performance).total = Num(45, 1000)
  /\ cOut[1].breakdown.k = "ok"

\* C13, as the specification states it: a legacy probe has a performance fee only
\* when the component sum of a shape equals maxFee.
LegacyAcceptedOnlyBySum ==
  (cOut # <<>> /\ OnLegacyPath(cCalls)) =>
    (cOut[1].performance # ReturnsUndefined => SumsToMaxFee(cCalls))

\* No getChainFees call of the cycle is still awaiting its batches
NoChainTaskRunning ==
  \A chain \in Chains :
    /\ tasks[chain].status \in {"done", "skipped", "error"}
    /\ \A i \in DOMAIN tasks[chain].results : tasks[chain].results[i].status # "pending"

\* C14: in every cycle saveToRedis is called once, when every chain's task has
\* settled; the persisted cache changes only in that save, with no chain task
\* running, and the timer of the next cycle is armed, and the next cycle started,
\* only after that save returned, the store holding the cache.
PersistOncePerCycle ==
  /\ [](/\ saves <= 1
        /\ (cycle > 0 /\ saves = 1) <=> pc \in {"saving", "sleeping", "updateVaultFeesRejected"}
        /\ saves = 1 => NoChainTaskRunning
        /\ pc = "cycle" => (saves = 0 /\ ~NoChainTaskRunning)
        /\ pc = "sleeping" => store.VAULT_FEES = <<vaultFees>>)
  /\ [][/\ store'.VAULT_FEES # store.VAULT_FEES =>
             (pc = "saving" /\ saves = 1 /\ saves' = 1 /\ NoChainTaskRunning
                /\ store'.VAULT_FEES = <<vaultFees>>)
        /\ (pc # "sleeping" /\ pc' = "sleeping") => (pc = "saving" /\ saves = 1)
        /\ (cycle > 0 /\ cycle' # cycle) =>
             (pc = "sleeping" /\ saves = 1 /\ store.VAULT_FEES = <<vaultFees>>)]_vars

\* The second cycle was saved after bsc failed and polygon was merged, and the
\* first cycle had been saved before it
PersistOnceWitness ==
  /\ cycle = 2
  /\ pc = "sleeping"
  /\ saves = 1
  /\ tasks["bsc"].status = "error"
  /\ tasks["polygon"].status = "done"
  /\ written # {}
  /\ store.VAULT_FEES = <<vaultFees>>

\* INITIALIZING: initVaultFeeService has not returned
Initializing(at) == at \in {"start", "updateFeeBatches", "setFeeBatchKey"}

\* WARM: the splits are loaded and persisted and the first cycle has not begun
Warm(at) == at = "initDelay"

\* RUNNING: in a cycle or between two cycles
Running(at) == at \in {"cycle", "saving", "sleeping"}

\* The treasury-split refresh visited every chain and its splits are in the store
RefreshCompleted ==
  /\ treasuryCall.chain = ChainOrder[Len(ChainOrder)]
  /\ chainIndex = 0
  /\ store.FEE_BATCHES = <<feeBatches>>

\* C15: the service goes from INITIALIZING to WARM to RUNNING and never back; the
\* caches are hydrated from the store in the first step; treasuryFee() is called
\* once per chain, in the order of the chains, before any cycle; the refresh is
\* completed and persisted whenever the service is WARM or RUNNING; and no step of
\* a cycle calls treasuryFee() or changes the splits or their persisted copy.
StartupOrdering ==
  /\ []((Warm(pc) \/ Running(pc) \/ cycle > 0) => RefreshCompleted)
  /\ [][/\ (Warm(pc) \/ Running(pc)) => (Warm(pc') \/ Running(pc') \/ pc' = "updateVaultFeesRejected")
        /\ Running(pc) => ~Warm(pc')
        /\ (Initializing(pc) /\ Running(pc')) => FALSE
        /\ (pc = "start" /\ pc' # pc) =>
             \/ pc' = "getKeyRejected"
             \/ /\ pc' = "updateFeeBatches"
                /\ vaultFees' = IF store.VAULT_FEES = <<>> THEN EmptyMap ELSE store.VAULT_FEES[1]
                /\ feeBatches' = IF store.FEE_BATCHES = <<>> THEN EmptyMap ELSE store.FEE_BATCHES[1]
                /\ treasuryCall' = NoCall
        /\ treasuryCall' # treasuryCall =>
             /\ pc = "updateFeeBatches"
             /\ cycle = 0
             /\ treasuryCall'.chain = ChainOrder[chainIndex]
             /\ treasuryCall.chain = IF chainIndex = 1 THEN "" ELSE ChainOrder[chainIndex - 1]
        /\ feeBatches' # feeBatches => (pc \in {"start", "updateFeeBatches"} /\ cycle = 0)
        /\ store'.FEE_BATCHES # store.FEE_BATCHES => (pc = "setFeeBatchKey" /\ cycle = 0)
        /\ cycle' # cycle => (RefreshCompleted /\ (Warm(pc) <=> cycle = 0))]_vars

\* The second cycle runs after the one refresh, which went through every chain and
\* replaced the hydrated split of polygon, the store holding the refreshed splits
StartupOrderingWitness ==
  /\ cycle = 2
  /\ pc = "cycle"
  /\ written # {}
  /\ RefreshCompleted
  /\ store.VAULT_FEES # <<>>
  /\ DOMAIN feeBatches = {"polygon", "zksync", "emerald"}
  /\ feeBatches["polygon"].treasurySplit = Num(1, 2)

\* The ids of the vaults a getChainFees call of the cycle probes
TaskIds(chain) == {tasks[chain].vaults[i].id : i \in DOMAIN tasks[chain].vaults}

\* No vault is probed twice in a cycle: not twice by a chain, and not by two chains
ProbedOnce ==
  /\ \A chain \in Chains :
       \A i, j \in DOMAIN tasks[chain].vaults :
         tasks[chain].vaults[i].id = tasks[chain].vaults[j].id => i = j
  /\ \A c1, c2 \in Chains : c1 # c2 => TaskIds(c1) \cap TaskIds(c2) = {}

\* C16: an entry of the cache is never removed and its lastUpdated never decreases;
\* after the hydration an entry is assigned only by a merge of the running cycle,
\* to a vault the cycle probes and has not yet written, with the cycle's Date.now(),
\* which is later than the lastUpdated of the entry it replaces; no vault is probed
\* twice in a cycle.
LastWriterWins ==
  /\ [](ProbedOnce /\ written \subseteq UNION {TaskIds(chain) : chain \in Chains})
  /\ [][/\ \A id \in DOMAIN vaultFees :
             /\ id \in DOMAIN vaultFees'
             /\ vaultFees'[id].lastUpdated >= vaultFees[id].lastUpdated
        /\ cycle' = cycle => written \subseteq written'
        /\ pc # "start" =>
             \A id \in DOMAIN vaultFees' :
               (id \notin DOMAIN vaultFees \/ vaultFees'[id] # vaultFees[id]) <=>
                 (id \in written' \ written /\ cycle' = cycle)
        /\ \A id \in written' \ written :
             /\ pc = "cycle"
             /\ vaultFees'[id].lastUpdated = now
             /\ id \in DOMAIN vaultFees => vaultFees[id].lastUpdated < now]_vars

\* In the second cycle bsc-agg, written by the first cycle, was written again with
\* a later lastUpdated
LastWriterWinsWitness ==
  /\ cycle = 2
  /\ "bsc-agg" \in written
  /\ "bsc-agg" \in DOMAIN cycleStart
  /\ cycleStart["bsc-agg"].lastUpdated = StartTime + INIT_DELAY
  /\ vaultFees["bsc-agg"].lastUpdated = now
  /\ now > StartTime + INIT_DELAY + CACHE_EXPIRY

\* C17: a cycle is started only by a timer, one at a time: when updateVaultFees
\* starts its getChainFees calls, no call of an earlier cycle is running and, but
\* for the first cycle, the save of the previous cycle has returned; the calls and
\* the clock reading of a cycle are replaced only by the start of the next one, so
\* every write to the cache is a write of the one cycle in flight.
OneCycleInFlight ==
  /\ [](pc \in {"cycle", "saving"} => cycle > 0)
  /\ [][/\ cycle' # cycle =>
             /\ cycle' = cycle + 1
             /\ pc \in {"initDelay", "sleeping"}
             /\ pc' \in {"cycle", "saving"}
             /\ \A chain \in Chains : tasks[chain].status # "awaiting"
             /\ cycle = 0 => \A chain \in Chains : tasks[chain] = IdleTask
             /\ cycle > 0 => (pc = "sleeping" /\ saves = 1 /\ store.VAULT_FEES = <<vaultFees>>)
             /\ vaultFees' = vaultFees
             /\ written' = {}
        /\ (\E chain \in Chains : tasks'[chain].vaults # tasks[chain].vaults) => cycle' # cycle
        /\ now' # now => cycle' # cycle
        /\ (pc # "start" /\ vaultFees' # vaultFees) =>
             (pc = "cycle" /\ cycle' = cycle /\ now' = now
                /\ \E chain \in Chains :
                     /\ tasks[chain].status = "awaiting"
                     /\ tasks'[chain].status \in {"done", "error"}
                     /\ written' \ written \subseteq TaskIds(chain))]_vars

\* The second cycle is in flight, started from the cache as the first cycle saved it
OneCycleInFlightWitness ==
  /\ cycle = 2
  /\ pc = "cycle"
  /\ saves = 0
  /\ store.VAULT_FEES = <<cycleStart>>
  /\ cycleStart # EmptyMap
  /\ tasks["bsc"].status = "awaiting"
  /\ tasks["polygon"].status = "done"
  /\ "quick-eth" \in written

\* contractCalls.paused is true
IsPaused(contractCalls) == Has(contractCalls, "paused") /\ contractCalls["paused"] = TRUE

\* No withdraw-fee accessor responded
NoWithdrawAccessor(contractCalls) ==
  ~Has(contractCalls, "withdraw") /\ ~Has(contractCalls, "withdraw2")

\* No accessor of the withdraw-fee denominator responded
NoWithdrawMaxAccessor(contractCalls) ==
  ~Has(contractCalls, "withdrawMax") /\ ~Has(contractCalls, "withdrawMax2")

\* The first responding withdraw accessor over the first responding denominator
WithdrawQuotient(contractCalls) ==
  JsDiv(IF Has(contractCalls, "withdraw") THEN contractCalls["withdraw"]
        ELSE Get(contractCalls, "withdraw2"),
        IF Has(contractCalls, "withdrawMax") THEN contractCalls["withdrawMax"]
        ELSE Get(contractCalls, "withdrawMax2"))

\* C18, as amended: with an aggregate getter the withdraw fee is the aggregate
\* withdraw value over 10000, paused or not; without one it is zero if the contract
\* is paused, or no withdraw-fee accessor responded, or no denominator accessor
\* responded (either of the two missing is enough), and otherwise the first
\* responding withdraw accessor over the first responding denominator accessor.
WithdrawFeeRule ==
  cOut # <<>> =>
    /\ Has(cCalls, "allFees") => cOut[1].withdraw = Num(cCalls["allFees"].withdraw, 10000)
    /\ (~Has(cCalls, "allFees")
          /\ (IsPaused(cCalls) \/ NoWithdrawAccessor(cCalls) \/ NoWithdrawMaxAccessor(cCalls)))
         => cOut[1].withdraw = Whole(0)
    /\ (~Has(cCalls, "allFees") /\ ~IsPaused(cCalls)
          /\ ~NoWithdrawAccessor(cCalls) /\ ~NoWithdrawMaxAccessor(cCalls))
         => cOut[1].withdraw = WithdrawQuotient(cCalls)

\* Not paused, withdraw2 = 20 responded and no denominator did: the fee is 0
WithdrawFeeWitness ==
  /\ cOut # <<>>
  /\ ~Has(cCalls, "allFees")
  /\ Has(cCalls, "paused") /\ cCalls["paused"] = FALSE
  /\ ~Has(cCalls, "withdraw")
  /\ Get(cCalls, "withdraw2") = Whole(20)
  /\ NoWithdrawMaxAccessor(cCalls)
  /\ cOut[1].withdraw = Whole(0)
  /\ cOut[1].breakdown.k = "ok"

\* C18, as the specification states it: without an aggregate getter the withdraw
\* fee is zero if the contract is paused or neither a withdraw-fee accessor nor a
\* denominator accessor responded, and otherwise the quotient of the two.
WithdrawFeeZeroWhenBothMissing ==
  (cOut # <<>> /\ ~Has(cCalls, "allFees")) =>
    cOut[1].withdraw =
      IF IsPaused(cCalls) \/ (NoWithdrawAccessor(cCalls) /\ NoWithdrawMaxAccessor(cCalls))
        THEN Whole(0)
        ELSE WithdrawQuotient(cCalls)

\* C19: a breakdown has a deposit field exactly when its probe has a response of
\* the aggregate getter, and the field is then the getter's deposit over 10000, a
\* deposit of 0 giving the field 0; the breakdowns of the breakdown getter, of the
\* maxi formulas and of the legacy shapes have no deposit field.
DepositOnlyFromAggregate ==
  (cOut # <<>> /\ cOut[1].breakdown.k = "ok") =>
    /\ Val(cOut[1].breakdown).deposit # <<>> <=> Has(cCalls, "allFees")
    /\ Has(cCalls, "allFees") =>
         Val(cOut[1].breakdown).deposit = <<Num(cCalls["allFees"].deposit, 10000)>>
    /\ (Has(cCalls, "allFees") /\ cCalls["allFees"].deposit = 0) =>
         Val(cOut[1].breakdown).deposit = <<Whole(0)>>
    /\ Generation(cCalls) # "allFees" => Val(cOut[1].breakdown).deposit = <<>>

\* An aggregate probe with deposit 0 has the field, as 0
DepositZeroWitness ==
  /\ cOut # <<>>
  /\ cOut[1].breakdown.k = "ok"
  /\ Has(cCalls, "allFees")
  /\ cCalls["allFees"].deposit = 0
  /\ Val(cOut[1].breakdown).deposit = <<Whole(0)>>
  /\ Val(cOut[1].breakdown).withdraw = Num(10, 10000)

\* The probe is classified by call + beefy === maxFee, after every earlier test failed
SumsCallBeefyOnly(contractCalls) ==
  /\ ~SumsCallStrategistBeefy(contractCalls)
  /\ ~RespondedStrategistCallBeefy(contractCalls)
  /\ ~RespondedStrategistCallTreasury(contractCalls)
  /\ LegacyShape(contractCalls) = 7
  /\ StrictEq(JsAdd(CallFeeOf(contractCalls), Get(contractCalls, "beefy")),
              MaxFeeOf(contractCalls))

\* C20, as amended: the total of a classified legacy probe is 0.05 when the shape
\* fee + call matched third, 0.01 when the shape call + beefy matched and the vault
\* id is 'cake-cakev2-eol', and 0.045 otherwise; it does not depend on the values
\* of the components, but for that one shape it depends on the vault id.
LegacyTotalByShapeAndId ==
  (cOut # <<>> /\ OnLegacyPath(cCalls) /\ cOut[1].performance.k = "ok") =>
    /\ Val(cOut[1].performance).total \in {Num(45, 1000), Num(5, 100), Num(1, 100)}
    /\ Val(cOut[1].performance).total = Num(5, 100) <=> LegacyShape(cCalls) = 3
    /\ Val(cOut[1].performance).total = Num(1, 100)
         <=> (SumsCallBeefyOnly(cCalls) /\ cCalls["id"] = "cake-cakev2-eol")
    /\ Val(cOut[1].performance).total =
         Val(performanceFeesFromCalls(
               [cCalls EXCEPT !["id"] = IF @ = "cake-cakev2-eol" THEN @ ELSE "cake-bnb"],
               cFeeBatch)).total

\* The vault cake-cakev2-eol with call 500 and beefy 9500 of maxFee 10000, and no
\* strategist: total 0.01
LegacyTotalWitness ==
  /\ cOut # <<>>
  /\ OnLegacyPath(cCalls)
  /\ cCalls["id"] = "cake-cakev2-eol"
  /\ SumsCallBeefyOnly(cCalls)
  /\ CallFeeOf(cCalls) = Whole(500)
  /\ Get(cCalls, "beefy") = Whole(9500)
  /\ cOut[1].performance.k = "ok"
  /\ Val(cOut[1].performance).total = Num(1, 100)
  /\ Val(cOut[1].performance).call = Num(5, 10000)

\* C20, as the specification states it: the total of a classified legacy probe is
\* 0.045 or 0.05, and is the total the same probe has under another vault id.
LegacyTotalOneOfTwo ==
  (cOut # <<>> /\ OnLegacyPath(cCalls) /\ cOut[1].performance.k = "ok") =>
    /\ Val(cOut[1].performance).total \in {Num(45, 1000), Num(5, 100)}
    /\ Val(cOut[1].performance).total =
         Val(performanceFeesFromCalls([cCalls EXCEPT !["id"] = "cake-bnb"], cFeeBatch)).total

\* The probe carries one house fee that the chain's split divides: the getters, and
\* the legacy shapes with beefy (first, fourth and seventh)
CarriesHouseFee(contractCalls) ==
  \/ Generation(contractCalls) \in {"allFees", "breakdown"}
  \/ Generation(contractCalls) = "legacy" /\ LegacyShape(contractCalls) \in {1, 4, 7}

\* (total * beefy) / feeSum of a getter's fees
GetterHouseShare(fees) ==
  JsDiv(JsMul(DivE9Twice(fees.total), DivE9Twice(fees.beefy)),
        JsAdd(JsAdd(DivE9Twice(fees.beefy), DivE9Twice(fees.call)), DivE9Twice(fees.strategist)))

\* The house share of the total: of the getter's fees, or (total * beefy) / maxFee
HouseShare(contractCalls, total) ==
  IF Has(contractCalls, "allFees") THEN GetterHouseShare(contractCalls["allFees"].performance)
  ELSE IF Has(contractCalls, "breakdown") THEN GetterHouseShare(contractCalls["breakdown"])
  ELSE JsDiv(JsMul(total, Get(contractCalls, "beefy")), MaxFeeOf(contractCalls))

\* x + y of two fractions, over the least common denominator
SumOverCommon(x, y, common) ==
  Num(x.n * (common \div x.d) + y.n * (common \div y.d), common)

\* treasury and stakers are the two splits of the house share, and add up to it
SplitsHouseShare(fee, detail, share) ==
  /\ fee.treasury = JsMul(detail.treasurySplit, share)
  /\ fee.stakers = JsMul(detail.stakerSplit, share)
  /\ share.t = "number" =>
       /\ fee.treasury.t = "number"
       /\ fee.stakers.t = "number"
       /\ SumOverCommon(fee.treasury, fee.stakers,
                        fee.treasury.d * (fee.stakers.d \div GCD(fee.treasury.d, fee.stakers.d)))
            = share

\* C21: for a probe of the aggregate or the breakdown getter, and for a legacy probe
\* of a shape with beefy, treasury is treasurySplit times the house share and
\* stakers is stakerSplit times the house share, the two adding up to the house
\* share; every other probe (the legacy shapes with treasury, rewards or fee, the
\* maxi formulas) is classified the same under every split and under none.
SplitApplication ==
  cOut # <<>> =>
    /\ (CarriesHouseFee(cCalls) /\ cFeeBatch # NoFeeBatch) =>
         /\ cOut[1].performance.k = "ok"
         /\ SplitsHouseShare(Val(cOut[1].performance), cFeeBatch[1],
                             HouseShare(cCalls, Val(cOut[1].performance).total))
    /\ ~CarriesHouseFee(cCalls) =>
         \A feeBatch \in ClassifyFeeBatches :
           performanceFeesFromCalls(cCalls, feeBatch) = cOut[1].performance

\* A breakdown probe on a chain of split 0.64: treasury and stakers are 0.64 and
\* 0.36 of the house share 0.03 of the total 0.05
SplitApplicationWitness ==
  /\ cOut # <<>>
  /\ Generation(cCalls) = "breakdown"
  /\ cFeeBatch # NoFeeBatch
  /\ cFeeBatch[1].treasurySplit = Num(64, 100)
  /\ cOut[1].performance.k = "ok"
  /\ Val(cOut[1].performance).total = Num(5, 100)
  /\ HouseShare(cCalls, Val(cOut[1].performance).total) = Num(3, 100)
  /\ Val(cOut[1].performance).treasury = Num(192, 10000)
  /\ Val(cOut[1].performance).stakers = Num(108, 10000)

\* The j2-th strategy of batch i2 comes before the j-th of batch i in the merge
MergedBefore(i2, j2, i, j) == i2 < i \/ (i2 = i /\ j2 < j)

\* The classification of the j-th strategy of the i-th batch is the first of the
\* chain's merge to raise
FirstRaise(chain, i, j) ==
  /\ BatchFulfilled(chain, i)
  /\ j \in DOMAIN BatchResponses(chain, i)
  /\ BatchClassifiedAs(chain, i, j).k = "throw"
  /\ \A i2 \in 1..i :
       BatchFulfilled(chain, i2) =>
         \A j2 \in DOMAIN BatchResponses(chain, i2) :
           MergedBefore(i2, j2, i, j) => BatchClassifiedAs(chain, i2, j2).k # "throw"

\* What holds of a chain whose merge raised first at the j-th strategy of batch i:
\* the strategies before it, in batch order, were merged, and it and the ones after
\* it, of its batch and of the later batches, keep the entries of the cycle's start
RaiseEndsMerge(chain, i, j) ==
  \A i2 \in DOMAIN tasks[chain].results :
    BatchFulfilled(chain, i2) =>
      \A j2 \in DOMAIN BatchResponses(chain, i2) :
        IF MergedBefore(i2, j2, i, j)
          THEN IF BatchClassifiedAs(chain, i2, j2).k = "ok"
                 THEN BatchWrittenAsClassified(chain, i2, j2)
                 ELSE EntryAsAtCycleStart(BatchResponses(chain, i2)[j2]["id"])
          ELSE EntryAsAtCycleStart(BatchResponses(chain, i2)[j2]["id"])

\* C22: a chain's results are merged in one step, after its last batch settled and
\* in batch order.  The chain ends in error exactly when a classification raised in
\* its merge; then the entries merged before the raise stay in the cache, the
\* raising vault and every vault after it in its batch and in the later batches keep
\* the entries they had, the chains that did not raise have every classified vault
\* written, and the cycle saves once all chains settled.
RaiseIsCaughtAtChain ==
  /\ [](/\ \A chain \in Chains :
             Merged(chain) =>
               /\ tasks[chain].status = "error" <=>
                    \E i \in DOMAIN tasks[chain].results :
                      BatchFulfilled(chain, i)
                        /\ \E j \in DOMAIN BatchResponses(chain, i) : FirstRaise(chain, i, j)
               /\ \A i \in DOMAIN tasks[chain].results :
                    BatchFulfilled(chain, i) =>
                      \A j \in DOMAIN BatchResponses(chain, i) :
                        /\ FirstRaise(chain, i, j) => RaiseEndsMerge(chain, i, j)
                        /\ (tasks[chain].status = "done" /\ BatchClassifiedAs(chain, i, j).k = "ok")
                             => BatchWrittenAsClassified(chain, i, j)
        /\ (cycle > 0 /\ \A chain \in Chains : tasks[chain].status \in {"done", "skipped", "error"})
             => (saves = 1 /\ pc \in {"saving", "sleeping", "updateVaultFeesRejected"}))
  /\ [][written' # written /\ cycle' = cycle =>
          \E chain \in Chains :
            /\ tasks[chain].status = "awaiting"
            /\ tasks'[chain].status \in {"done", "error"}
            /\ \A i \in DOMAIN tasks'[chain].results : tasks'[chain].results[i].status # "pending"
            /\ written' \ written \subseteq TaskIds(chain)
            /\ \A other \in Chains \ {chain} : tasks'[other] = tasks[other]]_vars

\* bsc has no split: bifi-maxi was merged, then the aggregate probe of bsc-agg, in
\* the second batch, raised and bsc-agg was skipped though both batch calls
\* succeeded; polygon wrote quick-eth and the cycle was saved
RaiseIsCaughtWitness ==
  /\ pc = "sleeping"
  /\ saves = 1
  /\ tasks["bsc"].status = "error"
  /\ tasks["bsc"].feeBatch = <<>>
  /\ Len(tasks["bsc"].results) = 2
  /\ BatchFulfilled("bsc", 1)
  /\ BatchFulfilled("bsc", 2)
  /\ FirstRaise("bsc", 2, 1)
  /\ "bifi-maxi" \in written
  /\ "bsc-agg" \notin written
  /\ tasks["polygon"].status = "done"
  /\ "quick-eth" \in written
  /\ store.VAULT_FEES = <<vaultFees>>

====
